---- MODULE Spec2Model ----
(***************************************************************************)
(* Gemini key management: the account orchestrator, its worker pool, the   *)
(* per-project reconcile / create / delete flows, the Terms-of-Service     *)
(* gate and the ledger store, as a state machine.                          *)
(*                                                                         *)
(* The orchestrator, the reconciler, the provisioner and the gate follow   *)
(* src/gemini_key_manager/actions.py, the cloud capabilities follow        *)
(* src/gemini_key_manager/gcp_api.py, the ledger primitives follow         *)
(* src/gemini_key_manager/database.py and the run loop with its final save *)
(* follows main() of src/main.py.                                          *)
(***************************************************************************)
EXTENDS Integers, Sequences, FiniteSets, TLC

(***************************************************************************)
(* Bounds of the model.                                                    *)
(***************************************************************************)
\* process_account calls of one process (the emails main() loops over)
MaxRuns == 2
\* terms-not-accepted answers the cloud gives to one process
MaxTos == 2
\* capability calls that fail (permission denied, API error) in one process
MaxFaults == 1
\* the cloud refuses create_project once the account holds this many projects
ProjectQuota == 2
\* the longest answer of search_projects the submission of tasks is tried on
MaxListed == 13
\* the shortest answer of search_projects the creation of projects is tried on
FewestListed == MaxListed - 3

(***************************************************************************)
(* Program constants.                                                      *)
(***************************************************************************)
TARGET_PROJECT_COUNT == 12
\* wait_for_project_ready(project_id, creds, timeout_seconds=300, initial_delay=5)
timeout_seconds == 300
initial_delay == 5
\* delay = min(delay * 2, 30)
DELAY_CEILING == 30
\* seconds a get_project call may take
PollSeconds == {0, 1}
GEMINI_API_KEY_DISPLAY_NAME == "Gemini API Key"
GENERATIVE_LANGUAGE_API_KEY_DISPLAY_NAME == "Generative Language API Key"
OTHER_DISPLAY_NAME == "Other Key"
MOCK_KEY_ID == "mock-key-id"

Emails == {"a"}
\* the accounts of a process that works on two of them
Accounts == {"a", "b"}
\* the pool widths (--max-workers) a process is started with
PoolWidths == {1, 2}
\* the projects search_projects lists at the start, in listing order
ExistingProjects == <<"p1">>

\* a sequence number written without padding
Zfill2Plain(n) == ToString(n)
\* str(i + 1).zfill(2)
Zfill2(n) == IF n < 10 THEN "0" \o ToString(n) ELSE ToString(n)
\* project id of the new project with sequence number n (random suffix left out:
\* one behaviour never creates two projects with the same number)
NewProjectId(n) == "project" \o Zfill2(n)
ProjectIds ==
    {ExistingProjects[i] : i \in 1..Len(ExistingProjects)}
        \cup {NewProjectId(n) : n \in 1..TARGET_PROJECT_COUNT}

(***************************************************************************)
(* Generic helpers.                                                        *)
(***************************************************************************)
Range(s) == {s[i] : i \in 1..Len(s)}

RECURSIVE FilterSeq(_, _)
FilterSeq(s, keep) ==
    IF s = <<>> THEN <<>>
    ELSE IF Head(s).key_id \in keep
         THEN <<Head(s)>> \o FilterSeq(Tail(s), keep)
         ELSE FilterSeq(Tail(s), keep)

(***************************************************************************)
(* Ledger store (database.py).                                             *)
(***************************************************************************)
\* index of the first account entry with the email, 0 when there is none
\* (Python's next((acc for acc in ... if ...), None))
AccountIndex(l, email) ==
    IF \E i \in 1..Len(l) : l[i].email = email
    THEN CHOOSE i \in 1..Len(l) :
            /\ l[i].email = email
            /\ \A j \in 1..(i - 1) : l[j].email # email
    ELSE 0
\* index of the first project entry with the project id, 0 when there is none
ProjectIndex(projects, project_id) ==
    IF \E i \in 1..Len(projects) : projects[i].project_id = project_id
    THEN CHOOSE i \in 1..Len(projects) :
            /\ projects[i].project_id = project_id
            /\ \A j \in 1..(i - 1) : projects[j].project_id # project_id
    ELSE 0
KeyIds(api_keys) == {api_keys[i].key_id : i \in 1..Len(api_keys)}

NewProjectEntry(project_id) == [project_id |-> project_id, api_keys |-> <<>>]

\* a record that is born deactivated
NewKeyEntryInactive(key_object) ==
    [key_id       |-> key_object.uid,
     display_name |-> key_object.display_name,
     state        |-> "INACTIVE",
     updated      |-> key_object.update_time]

NewKeyEntry(key_object) ==
    [key_id       |-> key_object.uid,
     display_name |-> key_object.display_name,
     state        |-> "ACTIVE",
     updated      |-> key_object.update_time]

\* an insertion that appends a project entry without looking for one
EnsureProjectAppended(projects, project_id) ==
    Append(projects, NewProjectEntry(project_id))
\* the projects list of an account entry with the entry of project_id ensured
EnsureProject(projects, project_id) ==
    IF ProjectIndex(projects, project_id) = 0
    THEN Append(projects, NewProjectEntry(project_id))
    ELSE projects

\* an insertion that skips the existing-key check
InsertKeyUnchecked(api_keys, key_object) ==
    Append(api_keys, [key_id       |-> key_object.uid,
                      display_name |-> key_object.display_name,
                      state        |-> "ACTIVE",
                      updated      |-> key_object.update_time])

\* the existing-key check of add_key_to_database: append unless the id is there
InsertKey(api_keys, key_object) ==
    IF key_object.uid \in KeyIds(api_keys)
    THEN api_keys
    ELSE Append(api_keys, NewKeyEntry(key_object))

\* add_key_to_database(account_entry, project, key_object) on a projects list
AddKeyToProjects(projects, project_id, key_object) ==
    LET ps == EnsureProject(projects, project_id)
        pi == ProjectIndex(ps, project_id)
    IN  [ps EXCEPT ![pi].api_keys = InsertKey(@, key_object)]

\* a removal that empties the key list of the project
RemoveEveryKeyFromProjects(projects, project_id, deleted) ==
    LET pi == ProjectIndex(projects, project_id)
    IN  IF pi = 0 THEN projects
        ELSE [projects EXCEPT ![pi].api_keys = <<>>]

\* remove_keys_from_database(account_entry, project_id, deleted_keys_uids)
RemoveKeysFromProjects(projects, project_id, deleted) ==
    LET pi == ProjectIndex(projects, project_id)
    IN  IF pi = 0 THEN projects
        ELSE [projects EXCEPT
                ![pi].api_keys = FilterSeq(@, KeyIds(@) \ deleted)]

\* a deactivation that flips the state of the record
DeactivateKeyToggled(api_keys, uid, now) ==
    [i \in 1..Len(api_keys) |->
        IF api_keys[i].key_id = uid
        THEN [api_keys[i] EXCEPT
                !.state = IF @ = "INACTIVE" THEN "ACTIVE" ELSE "INACTIVE",
                !.updated = now]
        ELSE api_keys[i]]

\* a deactivation that forgets the timestamp
DeactivateKeyKeepStamp(api_keys, uid, now) ==
    [i \in 1..Len(api_keys) |->
        IF api_keys[i].key_id = uid
        THEN [api_keys[i] EXCEPT !.state = "INACTIVE"]
        ELSE api_keys[i]]

\* local_keys[uid]['state'] = 'INACTIVE' and the timestamp refresh
DeactivateKey(api_keys, uid, now) ==
    [i \in 1..Len(api_keys) |->
        IF api_keys[i].key_id = uid
        THEN [api_keys[i] EXCEPT !.state = "INACTIVE", !.updated = now]
        ELSE api_keys[i]]

DeactivateInProjects(projects, project_id, uid, now) ==
    LET pi == ProjectIndex(projects, project_id)
    IN  IF pi = 0 THEN projects
        ELSE [projects EXCEPT ![pi].api_keys = DeactivateKey(@, uid, now)]

\* the key list of project_id in a projects list, <<>> when it has no entry
EntryKeys(projects, project_id) ==
    LET pi == ProjectIndex(projects, project_id)
    IN  IF pi = 0 THEN <<>> ELSE projects[pi].api_keys

(***************************************************************************)
(* Cloud side.                                                             *)
(***************************************************************************)
CloudKey(uid, display_name) ==
    [uid |-> uid, display_name |-> display_name, update_time |-> 0]
NoKey == CloudKey("", "")

\* the key sets a project may hold in the cloud when the first process starts
InitialKeySets(project_id) ==
    IF project_id = ExistingProjects[1]
    THEN { {},
           {CloudKey("k1", GEMINI_API_KEY_DISPLAY_NAME)},
           {CloudKey("k1", GENERATIVE_LANGUAGE_API_KEY_DISPLAY_NAME)},
           {CloudKey("k1", OTHER_DISPLAY_NAME)},
           {CloudKey("k1", OTHER_DISPLAY_NAME),
            CloudKey("k2", GEMINI_API_KEY_DISPLAY_NAME)},
           {CloudKey("k2", OTHER_DISPLAY_NAME),
            CloudKey("k3", GEMINI_API_KEY_DISPLAY_NAME)} }
    ELSE IF project_id \in Range(ExistingProjects)
    THEN { {}, {CloudKey("k1", GEMINI_API_KEY_DISPLAY_NAME)} }
    ELSE { {} }

\* the ledger files a first process may find (load_keys_database): no file, or
\* a ledger an earlier process saved
LedgerRecord(uid, state) ==
    [key_id |-> uid, display_name |-> GEMINI_API_KEY_DISPLAY_NAME,
     state |-> state, updated |-> 0]
InitialLedgers ==
    { <<>> } \cup
    { << [email |-> "a",
          projects |-> << [project_id |-> ExistingProjects[1],
                           api_keys |-> << LedgerRecord("k1", st) >>] >>] >>
      : st \in {"ACTIVE", "INACTIVE"} }

\* the key a successful create_key call returns: a fresh uid per run and project
CreatedKey(run) == CloudKey("n" \o ToString(run), GEMINI_API_KEY_DISPLAY_NAME)
\* a synthetic key without the placeholder id
MockKeyBlank == CloudKey("", GEMINI_API_KEY_DISPLAY_NAME)
\* the synthetic key create_api_key returns in dry-run
MockKey == CloudKey(MOCK_KEY_ID, GEMINI_API_KEY_DISPLAY_NAME)

\* a test that knows the older of the two reserved names only
IsLegacyName(display_name) ==
    display_name = GENERATIVE_LANGUAGE_API_KEY_DISPLAY_NAME
IsManagedName(display_name) ==
    display_name \in {GEMINI_API_KEY_DISPLAY_NAME,
                      GENERATIVE_LANGUAGE_API_KEY_DISPLAY_NAME}
Uids(keys) == {k.uid : k \in keys}
KeyByUid(keys, uid) == CHOOSE k \in keys : k.uid = uid


(***************************************************************************)
(* State.                                                                  *)
(***************************************************************************)
VARIABLES
    entry,              \* the main() that runs: "script" (src/main.py) or
                        \* "package" (src/gemini_key_manager/main.py)
    action,             \* "create" or "delete": the action of this process
    dry_run,            \* --dry-run of this process
    main_pc,            \* where main() is: "loop", "pool", "exited" (it
                        \* returned) or "aborted" (exit status not zero)
    emails_to_process,  \* the emails main() has still to process
    runs,               \* process_account calls so far; also the clock
    ledger,             \* api_keys_data["accounts"]
    disk,               \* the accounts of the persisted ledger file
    disk_written,       \* this process wrote the ledger file
    cloud_projects,     \* the projects search_projects lists, in order
    cloud,              \* project id -> the keys the cloud holds for it
    account_idx,        \* index in ledger of this call's account_entry
    tasks,              \* the futures of this call, in submission order
    db_lock,            \* 0, or the task that holds db_lock
    tos_helper,         \* the TosAcceptanceHelper of this call
    prompts,            \* acceptance prompts shown during this call
    tos_count,          \* terms-not-accepted answers so far
    faults,             \* failed capability calls so far
    max_workers,        \* --max-workers
    calls,              \* cloud-mutating calls issued during this call
    last_rec,           \* project id -> what its last reconcile listed
    ensurer             \* create_projects_if_needed of src/main.py: its
                        \* locals and those of wait_for_project_ready

vars == <<entry, action, dry_run, main_pc, emails_to_process, runs, ledger, disk,
          disk_written, cloud_projects, cloud, account_idx, tasks, db_lock,
          tos_helper, prompts, tos_count, faults, max_workers, calls,
          last_rec, ensurer>>

\* datetime.now(): the clock advances between two process_account calls
Now == runs

NewTosHelper == [lock |-> 0, prompt_in_progress |-> FALSE, prompted_event |-> FALSE]
\* create_projects_if_needed not running
NoEnsurer ==
    [pc |-> "idle", projects |-> <<>>, i |-> 0, delay |-> 0, elapsed |-> 0,
     failed_polls |-> 0, newly_created_projects |-> <<>>, skipped |-> <<>>]

NoRec == [known |-> FALSE, keys |-> {}, complete |-> FALSE]

NewTask(kind, project_id) ==
    [kind |-> kind, project |-> project_id, pc |-> "queued",
     cloud_keys |-> {}, listed |-> FALSE, gemini |-> FALSE,
     old_keys |-> <<>>, prev_rec |-> NoRec, fetch_failed |-> FALSE,
     todo_add |-> {}, todo_deact |-> {}, key_object |-> NoKey,
     to_delete |-> {}, deleted |-> {}, raised |-> FALSE,
     enabled |-> "none", unfetched |-> {}]

EmailLists(n) == UNION {[1..k -> Emails] : k \in 1..n}
AccountLists(n) == UNION {[1..k -> Accounts] : k \in 1..n}

TypeOK ==
    /\ action \in {"create", "delete"}
    /\ dry_run \in BOOLEAN
    /\ entry \in {"script", "package"}
    /\ main_pc \in {"loop", "pool", "exited", "aborted"}
    /\ runs \in 0..MaxRuns
    /\ db_lock \in 0..Len(tasks)
    /\ tos_helper.lock \in 0..Len(tasks)
    /\ prompts \in Nat
    /\ tos_count \in 0..MaxTos
    /\ faults \in 0..MaxFaults
    /\ max_workers \in PoolWidths
    /\ ensurer.pc \in {"idle", "next", "poll", "returned"}

Init ==
    /\ entry \in {"script", "package"}
    /\ action \in {"create", "delete"}
    /\ dry_run \in BOOLEAN
    /\ main_pc = "loop"
    /\ emails_to_process \in EmailLists(MaxRuns)
    \* the delete action takes the one email of --email
    /\ action = "delete" => Len(emails_to_process) = 1
    /\ runs = 0
    /\ disk \in InitialLedgers
    /\ ledger = disk
    /\ disk_written = FALSE
    /\ cloud_projects = ExistingProjects
    /\ \E held \in [Range(ExistingProjects) ->
                        UNION {InitialKeySets(p) : p \in ProjectIds}] :
            /\ \A p \in Range(ExistingProjects) : held[p] \in InitialKeySets(p)
            /\ cloud = [p \in ProjectIds |->
                            IF p \in DOMAIN held THEN held[p] ELSE {}]
    /\ account_idx = 0
    /\ tasks = <<>>
    /\ db_lock = 0
    /\ tos_helper = NewTosHelper
    /\ prompts = 0
    /\ tos_count = 0
    /\ faults = 0
    /\ max_workers \in PoolWidths
    /\ calls = {}
    /\ last_rec = [p \in ProjectIds |-> NoRec]
    /\ ensurer = NoEnsurer

(***************************************************************************)
(* main() of src/main.py: the loop over the emails and the final save.     *)
(***************************************************************************)
\* a capability call that fails takes one of the failures the process meets
Fault == faults < MaxFaults /\ faults' = faults + 1

\* the futures process_account submits: one per listed project, then, for
\* create below the target count, one per missing project number
SubmittedTasks(act, projects) ==
    LET n == Len(projects)
        existing == [i \in 1..n |-> NewTask("existing", projects[i])]
        projects_to_create_count ==
            IF act = "create" /\ n < TARGET_PROJECT_COUNT
            THEN TARGET_PROJECT_COUNT - n ELSE 0
        created == [k \in 1..projects_to_create_count |->
                        NewTask("new", NewProjectId(n + k))]
    IN  existing \o created

\* a call that appends an account entry without looking for one
WithAccountAppended(l, email) ==
    Append(l, [email |-> email, projects |-> <<>>])
\* account_entry = next(...) or a new entry appended to api_keys_data
WithAccount(l, email) ==
    IF AccountIndex(l, email) = 0
    THEN Append(l, [email |-> email, projects |-> <<>>])
    ELSE l

BeginCall(email) ==
    /\ entry = "script"
    /\ main_pc = "loop"
    /\ emails_to_process # <<>>
    /\ email = Head(emails_to_process)
    /\ runs < MaxRuns
    /\ runs' = runs + 1
    /\ ledger' = WithAccount(ledger, email)
    /\ account_idx' = AccountIndex(ledger', email)
    /\ tos_helper' = NewTosHelper
    /\ db_lock' = 0
    /\ prompts' = 0
    /\ calls' = {}
    /\ UNCHANGED <<entry, action, dry_run, disk, disk_written,
                   cloud_projects, cloud, tos_count, max_workers, last_rec,
                   ensurer>>

\* process_account: search_projects succeeds and the futures are submitted
ProcessAccount(email) ==
    /\ BeginCall(email)
    /\ tasks' = SubmittedTasks(action, cloud_projects)
    /\ main_pc' = "pool"
    /\ UNCHANGED <<emails_to_process, faults>>

\* a process_account that lets the failure of search_projects reach main()
ProcessAccountListEscapes(email) ==
    /\ BeginCall(email)
    /\ Fault
    /\ tasks' = <<>>
    /\ main_pc' = "exited"
    /\ emails_to_process' = emails_to_process

\* process_account: search_projects raises PermissionDenied / GoogleAPICallError
ProcessAccountListFails(email) ==
    /\ BeginCall(email)
    /\ Fault
    /\ tasks' = <<>>
    /\ main_pc' = "loop"
    /\ emails_to_process' = Tail(emails_to_process)

\* a credentials check placed after the look-up of the account entry
ProcessAccountNoCredsEnters(email) ==
    /\ entry = "script"
    /\ main_pc = "loop"
    /\ emails_to_process # <<>>
    /\ email = Head(emails_to_process)
    /\ ledger' = WithAccount(ledger, email)
    /\ calls' = {}
    /\ emails_to_process' = Tail(emails_to_process)
    /\ UNCHANGED <<entry, action, dry_run, main_pc, runs, disk, disk_written,
                   cloud_projects, cloud, account_idx, tasks, db_lock,
                   tos_helper, prompts, tos_count, faults, max_workers,
                   last_rec, ensurer>>

\* process_account called with creds None: 'if not creds: return' (273-275),
\* before the account entry is looked up and before any client is built
ProcessAccountNoCreds(email) ==
    /\ entry = "script"
    /\ main_pc = "loop"
    /\ emails_to_process # <<>>
    /\ email = Head(emails_to_process)
    /\ calls' = {}
    /\ emails_to_process' = Tail(emails_to_process)
    /\ UNCHANGED <<entry, action, dry_run, main_pc, runs, ledger, disk,
                   disk_written, cloud_projects, cloud, account_idx, tasks,
                   db_lock, tos_helper, prompts, tos_count, faults,
                   max_workers, last_rec, ensurer>>

AllDone == \A i \in 1..Len(tasks) : tasks[i].pc = "done"

\* the with-block of the executor ends: every future has completed
JoinPool ==
    /\ main_pc = "pool"
    /\ AllDone
    /\ main_pc' = "loop"
    /\ emails_to_process' = Tail(emails_to_process)
    /\ tasks' = <<>>
    /\ UNCHANGED <<entry, action, dry_run, runs, ledger, disk, disk_written,
                   cloud_projects, cloud, account_idx, db_lock, tos_helper,
                   prompts, tos_count, faults, max_workers, calls, last_rec,
                   ensurer>>

\* the email is not in creds_map (authentication failed): the account is
\* skipped (src/main.py 231-235, package main.py 151-165)
SkipAccount ==
    /\ main_pc = "loop"
    /\ emails_to_process # <<>>
    /\ emails_to_process' = Tail(emails_to_process)
    /\ UNCHANGED <<entry, action, dry_run, main_pc, runs, ledger, disk,
                   disk_written, cloud_projects, cloud, account_idx, tasks,
                   db_lock, tos_helper, prompts, tos_count, faults,
                   max_workers, calls, last_rec, ensurer>>

\* the main() of the package calls actions.process_account with schema as
\* fifth positional argument and dry_run by keyword (151-161): the call
\* raises TypeError (actions.py 258 takes dry_run fifth), main() ends on it
PackageCallRaises ==
    /\ entry = "package"
    /\ main_pc = "loop"
    /\ emails_to_process # <<>>
    /\ main_pc' = "aborted"
    /\ UNCHANGED <<entry, action, dry_run, emails_to_process, runs, ledger,
                   disk, disk_written, cloud_projects, cloud, account_idx,
                   tasks, db_lock, tos_helper, prompts, tos_count, faults,
                   max_workers, calls, last_rec, ensurer>>

\* the main() of the package returns after its loop (165): it holds no call
\* of save_keys_to_json
PackageExit ==
    /\ entry = "package"
    /\ main_pc = "loop"
    /\ emails_to_process = <<>>
    /\ main_pc' = "exited"
    /\ UNCHANGED <<entry, action, dry_run, emails_to_process, runs, ledger,
                   disk, disk_written, cloud_projects, cloud, account_idx,
                   tasks, db_lock, tos_helper, prompts, tos_count, faults,
                   max_workers, calls, last_rec, ensurer>>

\* if not args.dry_run: save_keys_to_json(...)
SaveAndExit ==
    /\ entry = "script"
    /\ main_pc = "loop"
    /\ emails_to_process = <<>>
    /\ ~dry_run
    /\ disk' = ledger
    /\ disk_written' = TRUE
    /\ main_pc' = "exited"
    /\ UNCHANGED <<entry, action, dry_run, emails_to_process, runs, ledger,
                   cloud_projects, cloud, account_idx, tasks, db_lock,
                   tos_helper, prompts, tos_count, faults, max_workers,
                   calls, last_rec, ensurer>>

\* a save that writes the file before it validates
SaveWritesThenAborts ==
    /\ entry = "script"
    /\ main_pc = "loop"
    /\ emails_to_process = <<>>
    /\ ~dry_run
    /\ disk' = ledger
    /\ disk_written' = TRUE
    /\ main_pc' = "aborted"
    /\ UNCHANGED <<entry, action, dry_run, emails_to_process, runs, ledger,
                   cloud_projects, cloud, account_idx, tasks, db_lock,
                   tos_helper, prompts, tos_count, faults, max_workers,
                   calls, last_rec, ensurer>>

\* save_keys_to_json: jsonschema.validate raises ValidationError, logged,
\* sys.exit(1) before the file is opened (src/main.py 147-155)
SaveFailsValidation ==
    /\ entry = "script"
    /\ main_pc = "loop"
    /\ emails_to_process = <<>>
    /\ ~dry_run
    /\ main_pc' = "aborted"
    /\ UNCHANGED <<entry, action, dry_run, emails_to_process, runs, ledger,
                   disk, disk_written, cloud_projects, cloud, account_idx,
                   tasks, db_lock, tos_helper, prompts, tos_count, faults,
                   max_workers, calls, last_rec, ensurer>>

ExitWithoutSave ==
    /\ entry = "script"
    /\ main_pc = "loop"
    /\ emails_to_process = <<>>
    /\ dry_run
    /\ main_pc' = "exited"
    /\ UNCHANGED <<entry, action, dry_run, emails_to_process, runs, ledger,
                   disk, disk_written, cloud_projects, cloud, account_idx,
                   tasks, db_lock, tos_helper, prompts, tos_count, faults,
                   max_workers, calls, last_rec, ensurer>>

(***************************************************************************)
(* The worker pool: ThreadPoolExecutor(max_workers).                       *)
(***************************************************************************)
Running(i) == tasks[i].pc \notin {"queued", "done"}

\* a pool that starts a queued future whatever the number of busy workers
CanStartAnyWidth(i) ==
    /\ main_pc = "pool"
    /\ tasks[i].pc = "queued"
    /\ \A j \in 1..(i - 1) : tasks[j].pc # "queued"

\* a queued future starts when every earlier one has started and a worker
\* thread is free
CanStart(i) ==
    /\ main_pc = "pool"
    /\ tasks[i].pc = "queued"
    /\ \A j \in 1..(i - 1) : tasks[j].pc # "queued"
    /\ Cardinality({j \in 1..Len(tasks) : Running(j)}) < max_workers

Projects == ledger[account_idx].projects
SetProjects(ps) == ledger' = [ledger EXCEPT ![account_idx].projects = ps]
SetTask(i, t) == tasks' = [tasks EXCEPT ![i] = t]

\* what a finished future keeps: its kind, project and outcome (the flags,
\* the answer of the enable loop, the uids delete_api_keys returned)
Finished(t) ==
    [NewTask(t.kind, t.project) EXCEPT
        !.pc = "done", !.listed = t.listed, !.gemini = t.gemini,
        !.raised = t.raised, !.enabled = t.enabled, !.deleted = t.deleted,
        !.unfetched = t.unfetched]

(***************************************************************************)
(* reconcile_project_keys (actions.py 92-181).                             *)
(***************************************************************************)
\* where the loops over cloud_only_uids and local_only_uids go next
AfterAdd(todo_add, todo_deact) ==
    IF todo_add # {} THEN "rec_add"
    ELSE IF todo_deact # {} THEN "rec_deact"
    ELSE "rec_done"

\* gemini_key_exists after the loop over cloud_keys_list
GeminiKeyExists(keys) == \E k \in keys : IsManagedName(k.display_name)

\* a partition that takes every ledger id for a ledger-only id
PartitionedAll(t, api_keys) ==
    LET cloud_uids == Uids(t.cloud_keys)
        local_uids == KeyIds(api_keys)
        cloud_only_uids == cloud_uids \ local_uids
    IN  IF dry_run
        THEN [t EXCEPT !.pc = "rec_done"]
        ELSE [t EXCEPT !.todo_add = cloud_only_uids,
                       !.todo_deact = local_uids,
                       !.pc = AfterAdd(cloud_only_uids, local_uids)]

\* a partition whose loops run in dry-run as they do without it
PartitionedWet(t, api_keys) ==
    LET cloud_uids == Uids(t.cloud_keys)
        local_uids == KeyIds(api_keys)
        cloud_only_uids == cloud_uids \ local_uids
        local_only_uids == local_uids \ cloud_uids
    IN  [t EXCEPT !.todo_add = cloud_only_uids,
                  !.todo_deact = local_only_uids,
                  !.pc = AfterAdd(cloud_only_uids, local_only_uids)]

\* the three-way partition of the ids; in dry-run both loops only log
Partitioned(t, api_keys) ==
    LET cloud_uids == Uids(t.cloud_keys)
        local_uids == KeyIds(api_keys)
        cloud_only_uids == cloud_uids \ local_uids
        local_only_uids == local_uids \ cloud_uids
    IN  IF dry_run
        THEN [t EXCEPT !.pc = "rec_done"]
        ELSE [t EXCEPT !.todo_add = cloud_only_uids,
                       !.todo_deact = local_only_uids,
                       !.pc = AfterAdd(cloud_only_uids, local_only_uids)]

\* list_keys succeeds (113-118); project_entry = next(...) is read without the
\* lock (120): a missing entry is appended under the lock, an entry that is
\* found is partitioned at once (135-142)
RecList(i) ==
    /\ CanStart(i)
    /\ action = "create"
    /\ tasks[i].kind = "existing"
    /\ LET keys == cloud[tasks[i].project]
           api_keys == EntryKeys(Projects, tasks[i].project)
           t == [tasks[i] EXCEPT
                    !.cloud_keys = keys, !.listed = TRUE,
                    !.gemini = GeminiKeyExists(keys),
                    !.prev_rec = last_rec[tasks[i].project],
                    !.old_keys = api_keys]
       IN  IF ProjectIndex(Projects, t.project) = 0
           THEN SetTask(i, [t EXCEPT !.pc = "rec_append_lock"])
           ELSE SetTask(i, Partitioned(t, api_keys))
    /\ UNCHANGED <<entry, action, dry_run, main_pc, emails_to_process, runs,
                   ledger, disk, disk_written, cloud_projects, cloud,
                   account_idx, db_lock, tos_helper, prompts, tos_count,
                   faults, max_workers, calls, last_rec, ensurer>>

\* a listing failure after which the flag still tells what the cloud holds
RecListFailsKeepsFlag(i) ==
    /\ CanStart(i)
    /\ action = "create"
    /\ tasks[i].kind = "existing"
    /\ Fault
    /\ SetTask(i, [tasks[i] EXCEPT
            !.pc = "rec_done", !.listed = FALSE,
            !.gemini = GeminiKeyExists(cloud[tasks[i].project]),
            !.old_keys = EntryKeys(Projects, tasks[i].project)])
    /\ UNCHANGED <<entry, action, dry_run, main_pc, emails_to_process, runs,
                   ledger, disk, disk_written, cloud_projects, cloud,
                   account_idx, db_lock, tos_helper, prompts, tos_count,
                   max_workers, calls, last_rec, ensurer>>

\* list_keys raises PermissionDenied / GoogleAPICallError: return False (176-181)
RecListFails(i) ==
    /\ CanStart(i)
    /\ action = "create"
    /\ tasks[i].kind = "existing"
    /\ Fault
    /\ SetTask(i, [tasks[i] EXCEPT
            !.pc = "rec_done", !.listed = FALSE, !.gemini = FALSE,
            !.old_keys = EntryKeys(Projects, tasks[i].project)])
    /\ UNCHANGED <<entry, action, dry_run, main_pc, emails_to_process, runs,
                   ledger, disk, disk_written, cloud_projects, cloud,
                   account_idx, db_lock, tos_helper, prompts, tos_count,
                   max_workers, calls, last_rec, ensurer>>

\* an append of the project entry made without taking db_lock
RecAppendUnlocked(i) ==
    /\ main_pc = "pool"
    /\ tasks[i].pc = "rec_append_lock"
    /\ SetProjects(Append(Projects, NewProjectEntry(tasks[i].project)))
    /\ SetTask(i, Partitioned(tasks[i], <<>>))
    /\ UNCHANGED <<entry, action, dry_run, main_pc, emails_to_process, runs,
                   disk, disk_written, cloud_projects, cloud, account_idx,
                   db_lock, tos_helper, prompts, tos_count, faults,
                   max_workers, calls, last_rec, ensurer>>

\* with db_lock: (132)
RecAppendAcquire(i) ==
    /\ main_pc = "pool"
    /\ tasks[i].pc = "rec_append_lock"
    /\ db_lock = 0
    /\ db_lock' = i
    /\ SetTask(i, [tasks[i] EXCEPT !.pc = "rec_append"])
    /\ UNCHANGED <<entry, action, dry_run, main_pc, emails_to_process, runs,
                   ledger, disk, disk_written, cloud_projects, cloud,
                   account_idx, tos_helper, prompts, tos_count, faults,
                   max_workers, calls, last_rec, ensurer>>

\* account_entry["projects"].append(project_entry) (133), the lock released;
\* the new entry has no keys (135-142)
RecAppend(i) ==
    /\ main_pc = "pool"
    /\ tasks[i].pc = "rec_append"
    /\ db_lock = i
    /\ SetProjects(Append(Projects, NewProjectEntry(tasks[i].project)))
    /\ db_lock' = 0
    /\ SetTask(i, Partitioned(tasks[i], <<>>))
    /\ UNCHANGED <<entry, action, dry_run, main_pc, emails_to_process, runs,
                   disk, disk_written, cloud_projects, cloud, account_idx,
                   tos_helper, prompts, tos_count, faults, max_workers,
                   calls, last_rec, ensurer>>

\* a fetch of the key string made with the ledger lock already taken
RecFetchLocked(i, uid) ==
    /\ main_pc = "pool"
    /\ tasks[i].pc = "rec_add"
    /\ uid \in tasks[i].todo_add
    /\ db_lock = 0
    /\ db_lock' = i
    /\ SetTask(i, [tasks[i] EXCEPT
            !.pc = "rec_add_lock",
            !.key_object = KeyByUid(tasks[i].cloud_keys, uid)])
    /\ UNCHANGED <<entry, action, dry_run, main_pc, emails_to_process, runs,
                   ledger, disk, disk_written, cloud_projects, cloud,
                   account_idx, tos_helper, prompts, tos_count,
                   faults, max_workers, calls, last_rec, ensurer>>

\* get_key_string for one cloud-only uid succeeds (155-156)
RecFetch(i, uid) ==
    /\ main_pc = "pool"
    /\ tasks[i].pc = "rec_add"
    /\ uid \in tasks[i].todo_add
    /\ SetTask(i, [tasks[i] EXCEPT
            !.pc = "rec_add_lock",
            !.key_object = KeyByUid(tasks[i].cloud_keys, uid)])
    /\ UNCHANGED <<entry, action, dry_run, main_pc, emails_to_process, runs,
                   ledger, disk, disk_written, cloud_projects, cloud,
                   account_idx, db_lock, tos_helper, prompts, tos_count,
                   faults, max_workers, calls, last_rec, ensurer>>

\* a fetch failure handled as the listing failure is: the reconcile gives up
RecFetchFailsAborts(i, uid) ==
    /\ main_pc = "pool"
    /\ tasks[i].pc = "rec_add"
    /\ uid \in tasks[i].todo_add
    /\ Fault
    /\ SetTask(i, [tasks[i] EXCEPT !.todo_add = {}, !.todo_deact = {},
                                   !.fetch_failed = TRUE, !.gemini = FALSE,
                                   !.pc = "rec_done"])
    /\ UNCHANGED <<entry, action, dry_run, main_pc, emails_to_process, runs,
                   ledger, disk, disk_written, cloud_projects, cloud,
                   account_idx, db_lock, tos_helper, prompts, tos_count,
                   max_workers, calls, last_rec, ensurer>>

\* get_key_string raises: the key is skipped (159-162)
RecFetchFails(i, uid) ==
    /\ main_pc = "pool"
    /\ tasks[i].pc = "rec_add"
    /\ uid \in tasks[i].todo_add
    /\ Fault
    /\ LET t == tasks[i]
           rest == t.todo_add \ {uid}
       IN  SetTask(i, [t EXCEPT !.todo_add = rest, !.fetch_failed = TRUE,
                                !.unfetched = @ \cup {uid},
                                !.pc = AfterAdd(rest, t.todo_deact)])
    /\ UNCHANGED <<entry, action, dry_run, main_pc, emails_to_process, runs,
                   ledger, disk, disk_written, cloud_projects, cloud,
                   account_idx, db_lock, tos_helper, prompts, tos_count,
                   max_workers, calls, last_rec, ensurer>>

\* with db_lock: (157)
RecAddAcquire(i) ==
    /\ main_pc = "pool"
    /\ tasks[i].pc = "rec_add_lock"
    /\ db_lock = 0
    /\ db_lock' = i
    /\ SetTask(i, [tasks[i] EXCEPT !.pc = "rec_add_cs"])
    /\ UNCHANGED <<entry, action, dry_run, main_pc, emails_to_process, runs,
                   ledger, disk, disk_written, cloud_projects, cloud,
                   account_idx, tos_helper, prompts, tos_count, faults,
                   max_workers, calls, last_rec, ensurer>>

\* database.add_key_to_database(account_entry, project, hydrated_key) (158)
RecAddWrite(i) ==
    /\ main_pc = "pool"
    /\ tasks[i].pc = "rec_add_cs"
    /\ db_lock = i
    /\ SetProjects(AddKeyToProjects(Projects, tasks[i].project,
                                    tasks[i].key_object))
    /\ db_lock' = 0
    /\ LET t == tasks[i]
           rest == t.todo_add \ {t.key_object.uid}
       IN  SetTask(i, [t EXCEPT !.todo_add = rest, !.key_object = NoKey,
                                !.pc = AfterAdd(rest, t.todo_deact)])
    /\ UNCHANGED <<entry, action, dry_run, main_pc, emails_to_process, runs,
                   disk, disk_written, cloud_projects, cloud, account_idx,
                   tos_helper, prompts, tos_count, faults, max_workers,
                   calls, last_rec, ensurer>>

\* with db_lock: for one ledger-only uid (170)
RecDeactAcquire(i, uid) ==
    /\ main_pc = "pool"
    /\ tasks[i].pc = "rec_deact"
    /\ uid \in tasks[i].todo_deact
    /\ db_lock = 0
    /\ db_lock' = i
    /\ SetTask(i, [tasks[i] EXCEPT !.pc = "rec_deact_cs",
                                   !.key_object = CloudKey(uid, "")])
    /\ UNCHANGED <<entry, action, dry_run, main_pc, emails_to_process, runs,
                   ledger, disk, disk_written, cloud_projects, cloud,
                   account_idx, tos_helper, prompts, tos_count, faults,
                   max_workers, calls, last_rec, ensurer>>

\* state = 'INACTIVE' and the timestamp refresh (171-172)
RecDeactWrite(i) ==
    /\ main_pc = "pool"
    /\ tasks[i].pc = "rec_deact_cs"
    /\ db_lock = i
    /\ SetProjects(DeactivateInProjects(Projects, tasks[i].project,
                                        tasks[i].key_object.uid, Now))
    /\ db_lock' = 0
    /\ LET t == tasks[i]
           rest == t.todo_deact \ {t.key_object.uid}
       IN  SetTask(i, [t EXCEPT !.todo_deact = rest, !.key_object = NoKey,
                                !.pc = AfterAdd({}, rest)])
    /\ UNCHANGED <<entry, action, dry_run, main_pc, emails_to_process, runs,
                   disk, disk_written, cloud_projects, cloud, account_idx,
                   tos_helper, prompts, tos_count, faults, max_workers,
                   calls, last_rec, ensurer>>

\* what the reconcile that has just returned leaves for the next one
RecordOf(t) ==
    IF t.listed
    THEN [known |-> TRUE, keys |-> t.cloud_keys,
          complete |-> ~t.fetch_failed]
    ELSE t.prev_rec

\* a flow that goes on to enable the API whatever the reconcile returned
StopIgnored(i) ==
    /\ main_pc = "pool"
    /\ tasks[i].pc = "rec_done"
    /\ tasks[i].gemini
    /\ SetTask(i, [tasks[i] EXCEPT !.pc = "enable"])
    /\ UNCHANGED <<entry, action, dry_run, main_pc, emails_to_process, runs,
                   ledger, disk, disk_written, cloud_projects, cloud,
                   account_idx, db_lock, tos_helper, prompts, tos_count,
                   faults, max_workers, calls, last_rec, ensurer>>

\* process_project_for_action after the reconcile (241-243): an existing
\* managed key ends the task
StopOnExistingKey(i) ==
    /\ main_pc = "pool"
    /\ tasks[i].pc = "rec_done"
    /\ tasks[i].gemini
    /\ SetTask(i, Finished(tasks[i]))
    /\ last_rec' = [last_rec EXCEPT ![tasks[i].project] = RecordOf(tasks[i])]
    /\ UNCHANGED <<entry, action, dry_run, main_pc, emails_to_process, runs,
                   ledger, disk, disk_written, cloud_projects, cloud,
                   account_idx, db_lock, tos_helper, prompts, tos_count,
                   faults, max_workers, calls, ensurer>>

\* no managed key reported: on to line 245
ProceedToEnable(i) ==
    /\ main_pc = "pool"
    /\ tasks[i].pc = "rec_done"
    /\ ~tasks[i].gemini
    /\ SetTask(i, [Finished(tasks[i]) EXCEPT !.pc = "enable"])
    /\ last_rec' = [last_rec EXCEPT ![tasks[i].project] = RecordOf(tasks[i])]
    /\ UNCHANGED <<entry, action, dry_run, main_pc, emails_to_process, runs,
                   ledger, disk, disk_written, cloud_projects, cloud,
                   account_idx, db_lock, tos_helper, prompts, tos_count,
                   faults, max_workers, calls, ensurer>>

(***************************************************************************)
(* _enable_api_with_interactive_retry (actions.py 59-90) over              *)
(* gcp_api.enable_api.  The terms-not-accepted answer is the               *)
(* TermsOfServiceNotAcceptedError that line 79 handles.                    *)
(***************************************************************************)
Call(op, project_id) == <<op, project_id>>

\* a caller that ignores the answer of the enable loop
AfterEnableAlways(ok) == "create_key"
\* if _enable_api_with_interactive_retry(...): (245, 212)
AfterEnable(ok) == IF ok THEN "create_key" ELSE "done"

\* an enable_api that sends its request in dry-run too
EnableApiRequests(i) ==
    /\ main_pc = "pool"
    /\ tasks[i].pc = "enable"
    /\ calls' = calls \cup {Call("enable_service", tasks[i].project)}
    /\ SetTask(i, [tasks[i] EXCEPT !.pc = AfterEnable(TRUE),
                                   !.enabled = "true"])
    /\ UNCHANGED <<entry, action, dry_run, main_pc, emails_to_process, runs,
                   ledger, disk, disk_written, cloud_projects, cloud,
                   account_idx, db_lock, tos_helper, prompts, tos_count,
                   faults, max_workers, last_rec, ensurer>>

\* enable_api returns True: in dry-run before any request, else after the
\* enable_service operation completed
EnableApi(i) ==
    /\ main_pc = "pool"
    /\ tasks[i].pc = "enable"
    /\ calls' = IF dry_run THEN calls
                ELSE calls \cup {Call("enable_service", tasks[i].project)}
    /\ SetTask(i, [tasks[i] EXCEPT !.pc = AfterEnable(TRUE),
                                   !.enabled = "true"])
    /\ UNCHANGED <<entry, action, dry_run, main_pc, emails_to_process, runs,
                   ledger, disk, disk_written, cloud_projects, cloud,
                   account_idx, db_lock, tos_helper, prompts, tos_count,
                   faults, max_workers, last_rec, ensurer>>

\* enable_api returns False (PermissionDenied / GoogleAPICallError), or an
\* unexpected exception is caught at line 88: return False, the flow ends
EnableApiFails(i) ==
    /\ main_pc = "pool"
    /\ tasks[i].pc = "enable"
    /\ ~dry_run
    /\ Fault
    /\ calls' = calls \cup {Call("enable_service", tasks[i].project)}
    /\ SetTask(i, [Finished(tasks[i]) EXCEPT !.pc = AfterEnable(FALSE),
                                             !.enabled = "false"])
    /\ UNCHANGED <<entry, action, dry_run, main_pc, emails_to_process, runs,
                   ledger, disk, disk_written, cloud_projects, cloud,
                   account_idx, db_lock, tos_helper, prompts, tos_count,
                   max_workers, last_rec, ensurer>>

\* the enable request is answered with terms-not-accepted (79)
EnableApiTos(i) ==
    /\ main_pc = "pool"
    /\ tasks[i].pc = "enable"
    /\ ~dry_run
    /\ tos_count < MaxTos
    /\ tos_count' = tos_count + 1
    /\ calls' = calls \cup {Call("enable_service", tasks[i].project)}
    /\ SetTask(i, [tasks[i] EXCEPT !.pc = "tos_lock"])
    /\ UNCHANGED <<entry, action, dry_run, main_pc, emails_to_process, runs,
                   ledger, disk, disk_written, cloud_projects, cloud,
                   account_idx, db_lock, tos_helper, prompts, faults,
                   max_workers, last_rec, ensurer>>

\* a gate that prompts whenever the lock is free
MustPromptAlways(helper) == TRUE
\* the test of line 81, made under tos_helper.lock
MustPrompt(helper) == ~helper.prompt_in_progress

\* with tos_helper.lock: the first worker sets prompt_in_progress, logs the
\* URL and blocks in input(), the lock held (80-85)
TosPrompt(i) ==
    /\ main_pc = "pool"
    /\ tasks[i].pc = "tos_lock"
    /\ tos_helper.lock = 0
    /\ MustPrompt(tos_helper)
    /\ tos_helper' = [tos_helper EXCEPT !.lock = i, !.prompt_in_progress = TRUE]
    /\ prompts' = prompts + 1
    /\ SetTask(i, [tasks[i] EXCEPT !.pc = "tos_input"])
    /\ UNCHANGED <<entry, action, dry_run, main_pc, emails_to_process, runs,
                   ledger, disk, disk_written, cloud_projects, cloud,
                   account_idx, db_lock, tos_count, faults, max_workers,
                   calls, last_rec, ensurer>>

\* with tos_helper.lock: a later worker finds prompt_in_progress set and
\* leaves the lock at once (80-81), on to prompted_event.wait()
TosSkipPrompt(i) ==
    /\ main_pc = "pool"
    /\ tasks[i].pc = "tos_lock"
    /\ tos_helper.lock = 0
    /\ ~MustPrompt(tos_helper)
    /\ SetTask(i, [tasks[i] EXCEPT !.pc = "tos_wait"])
    /\ UNCHANGED <<entry, action, dry_run, main_pc, emails_to_process, runs,
                   ledger, disk, disk_written, cloud_projects, cloud,
                   account_idx, db_lock, tos_helper, prompts, tos_count,
                   faults, max_workers, calls, last_rec, ensurer>>

\* a prompt that returns without setting the event
HumanConfirmsUnset(i) ==
    /\ main_pc = "pool"
    /\ tasks[i].pc = "tos_input"
    /\ tos_helper.lock = i
    /\ tos_helper' = [tos_helper EXCEPT !.lock = 0]
    /\ SetTask(i, [tasks[i] EXCEPT !.pc = "tos_wait"])
    /\ UNCHANGED <<entry, action, dry_run, main_pc, emails_to_process, runs,
                   ledger, disk, disk_written, cloud_projects, cloud,
                   account_idx, db_lock, prompts, tos_count, faults,
                   max_workers, calls, last_rec, ensurer>>

\* the human presses Enter: input() returns, prompted_event.set() (85-86),
\* the lock is released
HumanConfirms(i) ==
    /\ main_pc = "pool"
    /\ tasks[i].pc = "tos_input"
    /\ tos_helper.lock = i
    /\ tos_helper' = [tos_helper EXCEPT !.lock = 0, !.prompted_event = TRUE]
    /\ SetTask(i, [tasks[i] EXCEPT !.pc = "tos_wait"])
    /\ UNCHANGED <<entry, action, dry_run, main_pc, emails_to_process, runs,
                   ledger, disk, disk_written, cloud_projects, cloud,
                   account_idx, db_lock, prompts, tos_count, faults,
                   max_workers, calls, last_rec, ensurer>>

\* input() raises (end of input, interrupt): the with-block releases the lock
\* and the exception leaves the retry function; process_project_for_action
\* lets it reach the future, _create_and_process_new_project catches it (221)
HumanAborts(i) ==
    /\ main_pc = "pool"
    /\ tasks[i].pc = "tos_input"
    /\ tos_helper.lock = i
    /\ Fault
    /\ tos_helper' = [tos_helper EXCEPT !.lock = 0]
    /\ SetTask(i, [Finished(tasks[i]) EXCEPT
                        !.raised = (tasks[i].kind = "existing")])
    /\ UNCHANGED <<entry, action, dry_run, main_pc, emails_to_process, runs,
                   ledger, disk, disk_written, cloud_projects, cloud,
                   account_idx, db_lock, prompts, tos_count, max_workers,
                   calls, last_rec, ensurer>>

\* an Event that wakes one waiter only and clears itself
AfterWaitConsumed(helper) == [helper EXCEPT !.prompted_event = FALSE]
\* threading.Event.wait() leaves the flag set: the signal is a broadcast
AfterWait(helper) == helper

\* a loop that gives up once the wait is over
TosWaitGivesUp(i) ==
    /\ main_pc = "pool"
    /\ tasks[i].pc = "tos_wait"
    /\ tos_helper.prompted_event
    /\ SetTask(i, [Finished(tasks[i]) EXCEPT !.enabled = "false"])
    /\ UNCHANGED <<entry, action, dry_run, main_pc, emails_to_process, runs,
                   ledger, disk, disk_written, cloud_projects, cloud,
                   account_idx, db_lock, tos_helper, prompts, tos_count,
                   faults, max_workers, calls, last_rec, ensurer>>

\* prompted_event.wait() returns (87): back to the top of the loop
TosWaitReturns(i) ==
    /\ main_pc = "pool"
    /\ tasks[i].pc = "tos_wait"
    /\ tos_helper.prompted_event
    /\ tos_helper' = AfterWait(tos_helper)
    /\ SetTask(i, [tasks[i] EXCEPT !.pc = "enable"])
    /\ UNCHANGED <<entry, action, dry_run, main_pc, emails_to_process, runs,
                   ledger, disk, disk_written, cloud_projects, cloud,
                   account_idx, db_lock, prompts, tos_count, faults,
                   max_workers, calls, last_rec, ensurer>>

(***************************************************************************)
(* gcp_api.create_api_key and the insertion that follows it                *)
(* (actions.py 246-249 and 214-217).                                       *)
(***************************************************************************)
\* the key object is returned: the mock key in dry-run, else the key the
\* create_key operation made
CreateApiKey(i) ==
    /\ main_pc = "pool"
    /\ tasks[i].pc = "create_key"
    /\ LET p == tasks[i].project
           key == IF dry_run THEN MockKey ELSE CreatedKey(runs)
       IN  /\ calls' = IF dry_run THEN calls
                       ELSE calls \cup {Call("create_key", p)}
           /\ cloud' = IF dry_run THEN cloud
                       ELSE [cloud EXCEPT ![p] = @ \cup {key}]
           /\ SetTask(i, [tasks[i] EXCEPT !.pc = "add_lock",
                                          !.key_object = key])
    /\ UNCHANGED <<entry, action, dry_run, main_pc, emails_to_process, runs,
                   ledger, disk, disk_written, cloud_projects, account_idx,
                   db_lock, tos_helper, prompts, tos_count, faults,
                   max_workers, last_rec, ensurer>>

\* create_key raises PermissionDenied / GoogleAPICallError: None is returned
CreateApiKeyFails(i) ==
    /\ main_pc = "pool"
    /\ tasks[i].pc = "create_key"
    /\ ~dry_run
    /\ Fault
    /\ calls' = calls \cup {Call("create_key", tasks[i].project)}
    /\ SetTask(i, Finished(tasks[i]))
    /\ UNCHANGED <<entry, action, dry_run, main_pc, emails_to_process, runs,
                   ledger, disk, disk_written, cloud_projects, cloud,
                   account_idx, db_lock, tos_helper, prompts, tos_count,
                   max_workers, last_rec, ensurer>>

\* with db_lock: (248, 216)
AddAcquire(i) ==
    /\ main_pc = "pool"
    /\ tasks[i].pc = "add_lock"
    /\ db_lock = 0
    /\ db_lock' = i
    /\ SetTask(i, [tasks[i] EXCEPT !.pc = "add_cs"])
    /\ UNCHANGED <<entry, action, dry_run, main_pc, emails_to_process, runs,
                   ledger, disk, disk_written, cloud_projects, cloud,
                   account_idx, tos_helper, prompts, tos_count, faults,
                   max_workers, calls, last_rec, ensurer>>

\* an insertion made on the copy of the projects list that was loaded from
\* the ledger file, written back over the list in memory
AddWriteFromCopy(i) ==
    /\ main_pc = "pool"
    /\ tasks[i].pc = "add_cs"
    /\ db_lock = i
    /\ SetProjects(AddKeyToProjects(
            IF disk = <<>> THEN <<>> ELSE disk[1].projects,
            tasks[i].project, tasks[i].key_object))
    /\ db_lock' = 0
    /\ SetTask(i, Finished(tasks[i]))
    /\ UNCHANGED <<entry, action, dry_run, main_pc, emails_to_process, runs,
                   disk, disk_written, cloud_projects, cloud, account_idx,
                   tos_helper, prompts, tos_count, faults, max_workers,
                   calls, last_rec, ensurer>>

\* database.add_key_to_database(account_entry, project, key_object) (249, 217)
AddWrite(i) ==
    /\ main_pc = "pool"
    /\ tasks[i].pc = "add_cs"
    /\ db_lock = i
    /\ SetProjects(AddKeyToProjects(Projects, tasks[i].project,
                                    tasks[i].key_object))
    /\ db_lock' = 0
    /\ SetTask(i, Finished(tasks[i]))
    /\ UNCHANGED <<entry, action, dry_run, main_pc, emails_to_process, runs,
                   disk, disk_written, cloud_projects, cloud, account_idx,
                   tos_helper, prompts, tos_count, faults, max_workers,
                   calls, last_rec, ensurer>>

(***************************************************************************)
(* _create_and_process_new_project (actions.py 183-222).                   *)
(***************************************************************************)
\* dry-run: logged, nothing created (200-202)
NewProjectDryRun(i) ==
    /\ CanStart(i)
    /\ tasks[i].kind = "new"
    /\ dry_run
    /\ SetTask(i, Finished(tasks[i]))
    /\ UNCHANGED <<entry, action, dry_run, main_pc, emails_to_process, runs,
                   ledger, disk, disk_written, cloud_projects, cloud,
                   account_idx, db_lock, tos_helper, prompts, tos_count,
                   faults, max_workers, calls, last_rec, ensurer>>

\* create_project and operation.result() succeed (207-210); the cloud
\* accepts the project while the account is below its quota
NewProjectCreate(i) ==
    /\ CanStart(i)
    /\ tasks[i].kind = "new"
    /\ ~dry_run
    /\ Len(cloud_projects) < ProjectQuota
    /\ calls' = calls \cup {Call("create_project", tasks[i].project)}
    /\ cloud_projects' = Append(cloud_projects, tasks[i].project)
    /\ SetTask(i, [tasks[i] EXCEPT !.pc = "enable"])
    /\ UNCHANGED <<entry, action, dry_run, main_pc, emails_to_process, runs,
                   ledger, disk, disk_written, cloud, account_idx, db_lock,
                   tos_helper, prompts, tos_count, faults, max_workers,
                   last_rec, ensurer>>

\* create_project raises: caught and logged (221-222)
NewProjectCreateFails(i) ==
    /\ CanStart(i)
    /\ tasks[i].kind = "new"
    /\ ~dry_run
    /\ Len(cloud_projects) >= ProjectQuota
    /\ calls' = calls \cup {Call("create_project", tasks[i].project)}
    /\ SetTask(i, Finished(tasks[i]))
    /\ UNCHANGED <<entry, action, dry_run, main_pc, emails_to_process, runs,
                   ledger, disk, disk_written, cloud_projects, cloud,
                   account_idx, db_lock, tos_helper, prompts, tos_count,
                   faults, max_workers, last_rec, ensurer>>

(***************************************************************************)
(* The delete flow: gcp_api.delete_api_keys (81-114) and the removal from  *)
(* the ledger (actions.py 250-254).                                        *)
(***************************************************************************)
\* a selection by the two names the reconciliation counts as managed
KeysToDeleteManaged(keys) ==
    {k \in keys : IsManagedName(k.display_name)}
KeysToDelete(keys) ==
    {k \in keys : k.display_name = GEMINI_API_KEY_DISPLAY_NAME}

\* a caller that drops the list delete_api_keys returned
AfterDeleteForgets(to_delete, deleted) ==
    IF to_delete # {} THEN "del_keys" ELSE "done"
\* the loop over keys_to_delete, then 'if deleted_keys_uids:' (251)
AfterDelete(to_delete, deleted) ==
    IF to_delete # {} THEN "del_keys"
    ELSE IF deleted # {} THEN "del_lock"
    ELSE "done"

\* list_keys succeeds, the keys with the display name are selected (88-93)
DelList(i) ==
    /\ CanStart(i)
    /\ action = "delete"
    /\ LET t == tasks[i]
           keys_to_delete == KeysToDelete(cloud[t.project])
       IN  IF keys_to_delete = {}
           THEN SetTask(i, Finished([t EXCEPT !.listed = TRUE]))
           ELSE SetTask(i, [t EXCEPT !.listed = TRUE, !.pc = "del_keys",
                                     !.to_delete = keys_to_delete])
    /\ UNCHANGED <<entry, action, dry_run, main_pc, emails_to_process, runs,
                   ledger, disk, disk_written, cloud_projects, cloud,
                   account_idx, db_lock, tos_helper, prompts, tos_count,
                   faults, max_workers, calls, last_rec, ensurer>>

\* list_keys raises: [] is returned (110-114)
DelListFails(i) ==
    /\ CanStart(i)
    /\ action = "delete"
    /\ Fault
    /\ SetTask(i, Finished(tasks[i]))
    /\ UNCHANGED <<entry, action, dry_run, main_pc, emails_to_process, runs,
                   ledger, disk, disk_written, cloud_projects, cloud,
                   account_idx, db_lock, tos_helper, prompts, tos_count,
                   max_workers, calls, last_rec, ensurer>>

\* one key of keys_to_delete: in dry-run its uid is only recorded, else the
\* delete_key operation succeeds (96-106)
DelKey(i, key) ==
    /\ main_pc = "pool"
    /\ tasks[i].pc = "del_keys"
    /\ key \in tasks[i].to_delete
    /\ LET t == tasks[i]
           rest == t.to_delete \ {key}
           deleted == t.deleted \cup {key.uid}
       IN  /\ calls' = IF dry_run THEN calls
                       ELSE calls \cup {Call("delete_key", t.project)}
           /\ cloud' = IF dry_run THEN cloud
                       ELSE [cloud EXCEPT ![t.project] = @ \ {key}]
           /\ SetTask(i, [t EXCEPT !.to_delete = rest, !.deleted = deleted,
                                   !.pc = AfterDelete(rest, deleted)])
    /\ UNCHANGED <<entry, action, dry_run, main_pc, emails_to_process, runs,
                   ledger, disk, disk_written, cloud_projects, account_idx,
                   db_lock, tos_helper, prompts, tos_count, faults,
                   max_workers, last_rec, ensurer>>

\* a delete_key failure whose uid is returned all the same
DelKeyFailsListed(i, key) ==
    /\ main_pc = "pool"
    /\ tasks[i].pc = "del_keys"
    /\ key \in tasks[i].to_delete
    /\ ~dry_run
    /\ Fault
    /\ LET t == tasks[i]
           rest == t.to_delete \ {key}
           deleted == t.deleted \cup {key.uid}
       IN  SetTask(i, [t EXCEPT !.to_delete = rest, !.deleted = deleted,
                                !.pc = AfterDelete(rest, deleted)])
    /\ calls' = calls \cup {Call("delete_key", tasks[i].project)}
    /\ UNCHANGED <<entry, action, dry_run, main_pc, emails_to_process, runs,
                   ledger, disk, disk_written, cloud_projects, cloud,
                   account_idx, db_lock, tos_helper, prompts, tos_count,
                   max_workers, last_rec, ensurer>>

\* delete_key raises GoogleAPICallError: logged, the key is kept (107-108)
DelKeyFails(i, key) ==
    /\ main_pc = "pool"
    /\ tasks[i].pc = "del_keys"
    /\ key \in tasks[i].to_delete
    /\ ~dry_run
    /\ Fault
    /\ LET t == tasks[i]
           rest == t.to_delete \ {key}
       IN  SetTask(i, IF AfterDelete(rest, t.deleted) = "done"
                      THEN Finished(t)
                      ELSE [t EXCEPT !.to_delete = rest,
                                     !.pc = AfterDelete(rest, t.deleted)])
    /\ calls' = calls \cup {Call("delete_key", tasks[i].project)}
    /\ UNCHANGED <<entry, action, dry_run, main_pc, emails_to_process, runs,
                   ledger, disk, disk_written, cloud_projects, cloud,
                   account_idx, db_lock, tos_helper, prompts, tos_count,
                   max_workers, last_rec, ensurer>>

\* with db_lock: (253)
DelAcquire(i) ==
    /\ main_pc = "pool"
    /\ tasks[i].pc = "del_lock"
    /\ db_lock = 0
    /\ db_lock' = i
    /\ SetTask(i, [tasks[i] EXCEPT !.pc = "del_cs"])
    /\ UNCHANGED <<entry, action, dry_run, main_pc, emails_to_process, runs,
                   ledger, disk, disk_written, cloud_projects, cloud,
                   account_idx, tos_helper, prompts, tos_count, faults,
                   max_workers, calls, last_rec, ensurer>>

\* database.remove_keys_from_database(account_entry, project_id, uids) (254)
DelWrite(i) ==
    /\ main_pc = "pool"
    /\ tasks[i].pc = "del_cs"
    /\ db_lock = i
    /\ SetProjects(RemoveKeysFromProjects(Projects, tasks[i].project,
                                          tasks[i].deleted))
    /\ db_lock' = 0
    /\ SetTask(i, Finished(tasks[i]))
    /\ UNCHANGED <<entry, action, dry_run, main_pc, emails_to_process, runs,
                   disk, disk_written, cloud_projects, cloud, account_idx,
                   tos_helper, prompts, tos_count, faults, max_workers,
                   calls, last_rec, ensurer>>

(***************************************************************************)
(* The specification.                                                      *)
(***************************************************************************)
Next ==
    \/ \E email \in Emails : ProcessAccount(email)
    \/ \E email \in Emails : ProcessAccountListFails(email)
    \/ JoinPool
    \/ SkipAccount
    \/ PackageCallRaises
    \/ PackageExit
    \/ SaveAndExit
    \/ SaveFailsValidation
    \/ ExitWithoutSave
    \/ \E i \in 1..Len(tasks) : RecList(i)
    \/ \E i \in 1..Len(tasks) : RecListFails(i)
    \/ \E i \in 1..Len(tasks) : RecAppendAcquire(i)
    \/ \E i \in 1..Len(tasks) : RecAppend(i)
    \/ \E i \in 1..Len(tasks) : \E uid \in tasks[i].todo_add : RecFetch(i, uid)
    \/ \E i \in 1..Len(tasks) :
            \E uid \in tasks[i].todo_add : RecFetchFails(i, uid)
    \/ \E i \in 1..Len(tasks) : RecAddAcquire(i)
    \/ \E i \in 1..Len(tasks) : RecAddWrite(i)
    \/ \E i \in 1..Len(tasks) :
            \E uid \in tasks[i].todo_deact : RecDeactAcquire(i, uid)
    \/ \E i \in 1..Len(tasks) : RecDeactWrite(i)
    \/ \E i \in 1..Len(tasks) : StopOnExistingKey(i)
    \/ \E i \in 1..Len(tasks) : ProceedToEnable(i)
    \/ \E i \in 1..Len(tasks) : EnableApi(i)
    \/ \E i \in 1..Len(tasks) : EnableApiFails(i)
    \/ \E i \in 1..Len(tasks) : EnableApiTos(i)
    \/ \E i \in 1..Len(tasks) : TosPrompt(i)
    \/ \E i \in 1..Len(tasks) : TosSkipPrompt(i)
    \/ \E i \in 1..Len(tasks) : HumanConfirms(i)
    \/ \E i \in 1..Len(tasks) : HumanAborts(i)
    \/ \E i \in 1..Len(tasks) : TosWaitReturns(i)
    \/ \E i \in 1..Len(tasks) : CreateApiKey(i)
    \/ \E i \in 1..Len(tasks) : CreateApiKeyFails(i)
    \/ \E i \in 1..Len(tasks) : AddAcquire(i)
    \/ \E i \in 1..Len(tasks) : AddWrite(i)
    \/ \E i \in 1..Len(tasks) : NewProjectDryRun(i)
    \/ \E i \in 1..Len(tasks) : NewProjectCreate(i)
    \/ \E i \in 1..Len(tasks) : NewProjectCreateFails(i)
    \/ \E i \in 1..Len(tasks) : DelList(i)
    \/ \E i \in 1..Len(tasks) : DelListFails(i)
    \/ \E i \in 1..Len(tasks) : \E key \in tasks[i].to_delete : DelKey(i, key)
    \/ \E i \in 1..Len(tasks) :
            \E key \in tasks[i].to_delete : DelKeyFails(i, key)
    \/ \E i \in 1..Len(tasks) : DelAcquire(i)
    \/ \E i \in 1..Len(tasks) : DelWrite(i)

Spec == Init /\ [][Next]_vars

(***************************************************************************)
(* One create call of a process started without --dry-run on a fresh       *)
(* ledger and a project without keys, the workers scheduled fairly: every  *)
(* worker thread that can take a step eventually takes one.  The human is  *)
(* under no obligation to answer the prompt.                               *)
(***************************************************************************)
GateInit ==
    /\ Init
    /\ entry = "script"
    /\ action = "create"
    /\ ~dry_run
    /\ Len(emails_to_process) = 1
    /\ disk = <<>>
    /\ \A p \in ProjectIds : cloud[p] = {}

\* the steps of worker i in this call
GateStep(i) ==
    \/ RecList(i) \/ RecListFails(i)
    \/ RecAppendAcquire(i) \/ RecAppend(i)
    \/ ProceedToEnable(i)
    \/ EnableApi(i) \/ EnableApiFails(i) \/ EnableApiTos(i)
    \/ TosPrompt(i) \/ TosSkipPrompt(i) \/ TosWaitReturns(i)
    \/ CreateApiKey(i) \/ CreateApiKeyFails(i)
    \/ AddAcquire(i) \/ AddWrite(i)
    \/ NewProjectCreate(i) \/ NewProjectCreateFails(i)

GateNext ==
    \/ \E email \in Emails : ProcessAccount(email)
    \/ \E email \in Emails : ProcessAccountListFails(email)
    \/ JoinPool
    \/ SaveAndExit
    \/ \E i \in 1..Len(tasks) : RecList(i)
    \/ \E i \in 1..Len(tasks) : RecListFails(i)
    \/ \E i \in 1..Len(tasks) : RecAppendAcquire(i)
    \/ \E i \in 1..Len(tasks) : RecAppend(i)
    \/ \E i \in 1..Len(tasks) : ProceedToEnable(i)
    \/ \E i \in 1..Len(tasks) : EnableApi(i)
    \/ \E i \in 1..Len(tasks) : EnableApiFails(i)
    \/ \E i \in 1..Len(tasks) : EnableApiTos(i)
    \/ \E i \in 1..Len(tasks) : TosPrompt(i)
    \/ \E i \in 1..Len(tasks) : TosSkipPrompt(i)
    \/ \E i \in 1..Len(tasks) : HumanConfirms(i)
    \/ \E i \in 1..Len(tasks) : HumanAborts(i)
    \/ \E i \in 1..Len(tasks) : TosWaitReturns(i)
    \/ \E i \in 1..Len(tasks) : CreateApiKey(i)
    \/ \E i \in 1..Len(tasks) : CreateApiKeyFails(i)
    \/ \E i \in 1..Len(tasks) : AddAcquire(i)
    \/ \E i \in 1..Len(tasks) : AddWrite(i)
    \/ \E i \in 1..Len(tasks) : NewProjectCreate(i)
    \/ \E i \in 1..Len(tasks) : NewProjectCreateFails(i)

GateSpec ==
    /\ GateInit
    /\ [][GateNext]_vars
    /\ \A i \in 1..TARGET_PROJECT_COUNT :
            WF_vars(i <= Len(tasks) /\ GateStep(i))

(***************************************************************************)
(* The submission of the tasks alone (actions.py 291-316), on answers of   *)
(* search_projects of every length up to MaxListed.                        *)
(***************************************************************************)
\* an answer of search_projects with n projects
ListedProjects(n) == [i \in 1..n |-> "p" \o ToString(i)]

SubmitInit ==
    /\ entry = "script"
    /\ action \in {"create", "delete"}
    /\ dry_run \in BOOLEAN
    /\ main_pc = "loop"
    /\ emails_to_process \in EmailLists(MaxRuns)
    \* the delete action takes the one email of --email
    /\ action = "delete" => Len(emails_to_process) = 1
    /\ runs = 0
    /\ disk \in InitialLedgers
    /\ ledger = disk
    /\ disk_written = FALSE
    /\ \E n \in 0..MaxListed : cloud_projects = ListedProjects(n)
    /\ cloud = [p \in ProjectIds |-> {}]
    /\ account_idx = 0
    /\ tasks = <<>>
    /\ db_lock = 0
    /\ tos_helper = NewTosHelper
    /\ prompts = 0
    /\ tos_count = 0
    /\ faults = 0
    /\ max_workers \in PoolWidths
    /\ calls = {}
    /\ last_rec = [p \in ProjectIds |-> NoRec]
    /\ ensurer = NoEnsurer

SubmitNext == \E email \in Emails : ProcessAccount(email)

SubmitSpec == SubmitInit /\ [][SubmitNext]_vars

(***************************************************************************)
(* main() with the create action in dry-run over the accounts of the       *)
(* emails file (only create reads it: delete takes the one --email).       *)
(***************************************************************************)
AccountsInit ==
    /\ entry = "script"
    /\ action = "create"
    /\ dry_run = TRUE
    /\ main_pc = "loop"
    /\ emails_to_process \in AccountLists(MaxRuns)
    /\ runs = 0
    /\ disk \in InitialLedgers
    /\ ledger = disk
    /\ disk_written = FALSE
    /\ cloud_projects = ExistingProjects
    /\ \E held \in [Range(ExistingProjects) ->
                        UNION {InitialKeySets(p) : p \in ProjectIds}] :
            /\ \A p \in Range(ExistingProjects) : held[p] \in InitialKeySets(p)
            /\ cloud = [p \in ProjectIds |->
                            IF p \in DOMAIN held THEN held[p] ELSE {}]
    /\ account_idx = 0
    /\ tasks = <<>>
    /\ db_lock = 0
    /\ tos_helper = NewTosHelper
    /\ prompts = 0
    /\ tos_count = 0
    /\ faults = 0
    /\ max_workers \in PoolWidths
    /\ calls = {}
    /\ last_rec = [p \in ProjectIds |-> NoRec]
    /\ ensurer = NoEnsurer

AccountsNext ==
    \/ \E email \in Accounts : ProcessAccount(email)
    \/ \E email \in Accounts : ProcessAccountListFails(email)
    \/ JoinPool
    \/ ExitWithoutSave
    \/ \E i \in 1..Len(tasks) : RecList(i)
    \/ \E i \in 1..Len(tasks) : RecListFails(i)
    \/ \E i \in 1..Len(tasks) : RecAppendAcquire(i)
    \/ \E i \in 1..Len(tasks) : RecAppend(i)
    \/ \E i \in 1..Len(tasks) : StopOnExistingKey(i)
    \/ \E i \in 1..Len(tasks) : ProceedToEnable(i)
    \/ \E i \in 1..Len(tasks) : EnableApi(i)
    \/ \E i \in 1..Len(tasks) : CreateApiKey(i)
    \/ \E i \in 1..Len(tasks) : AddAcquire(i)
    \/ \E i \in 1..Len(tasks) : AddWrite(i)
    \/ \E i \in 1..Len(tasks) : NewProjectDryRun(i)

AccountsSpec == AccountsInit /\ [][AccountsNext]_vars

(***************************************************************************)
(* The calls of AccountsSpec made by a caller that passes process_account  *)
(* the credentials of the email or None (main() itself skips an email      *)
(* without credentials before the call).                                   *)
(***************************************************************************)
CredsNext ==
    \/ \E email \in Accounts : ProcessAccountNoCreds(email)
    \/ \E email \in Accounts : ProcessAccount(email)
    \/ \E email \in Accounts : ProcessAccountListFails(email)
    \/ JoinPool
    \/ ExitWithoutSave
    \/ \E i \in 1..Len(tasks) : RecList(i)
    \/ \E i \in 1..Len(tasks) : RecListFails(i)
    \/ \E i \in 1..Len(tasks) : RecAppendAcquire(i)
    \/ \E i \in 1..Len(tasks) : RecAppend(i)
    \/ \E i \in 1..Len(tasks) : StopOnExistingKey(i)
    \/ \E i \in 1..Len(tasks) : ProceedToEnable(i)
    \/ \E i \in 1..Len(tasks) : EnableApi(i)
    \/ \E i \in 1..Len(tasks) : CreateApiKey(i)
    \/ \E i \in 1..Len(tasks) : AddAcquire(i)
    \/ \E i \in 1..Len(tasks) : AddWrite(i)
    \/ \E i \in 1..Len(tasks) : NewProjectDryRun(i)

CredsSpec == AccountsInit /\ [][CredsNext]_vars

(***************************************************************************)
(* create_projects_if_needed and wait_for_project_ready (src/main.py       *)
(* 375-440), then projects.extend(new_projects) in process_account         *)
(* (473-475).  Time is in seconds; elapsed is time.time() - start_time.    *)
(* _create_single_project (gcp_api.py 118-162) has the same loop.          *)
(***************************************************************************)
min(a, b) == IF a < b THEN a ELSE b

ReadyInit ==
    /\ entry = "script"
    /\ action = "create"
    /\ dry_run \in BOOLEAN
    /\ main_pc = "loop"
    /\ emails_to_process = <<"a">>
    /\ runs = 0
    /\ disk = <<>>
    /\ ledger = disk
    /\ disk_written = FALSE
    /\ \E n \in FewestListed..MaxListed :
            /\ cloud_projects = ListedProjects(n)
            /\ ensurer = [NoEnsurer EXCEPT !.pc = "next",
                                           !.projects = ListedProjects(n),
                                           !.i = n]
    /\ cloud = [p \in ProjectIds |-> {}]
    /\ account_idx = 0
    /\ tasks = <<>>
    /\ db_lock = 0
    /\ tos_helper = NewTosHelper
    /\ prompts = 0
    /\ tos_count = 0
    /\ faults = 0
    /\ max_workers \in PoolWidths
    /\ calls = {}
    /\ last_rec = [p \in ProjectIds |-> NoRec]

\* if dry_run: ... continue (417-419)
CreateDryRun ==
    /\ ensurer.pc = "next"
    /\ ensurer.i < TARGET_PROJECT_COUNT
    /\ dry_run
    /\ ensurer' = [ensurer EXCEPT !.i = @ + 1]
    /\ UNCHANGED <<entry, action, dry_run, main_pc, emails_to_process, runs,
                   ledger, disk, disk_written, cloud_projects, cloud,
                   account_idx, tasks, db_lock, tos_helper, prompts,
                   tos_count, faults, max_workers, calls, last_rec>>

\* create_project and operation.result() succeed (421-432);
\* wait_for_project_ready starts: start_time, delay = initial_delay (378-379)
CreateProject ==
    /\ ensurer.pc = "next"
    /\ ensurer.i < TARGET_PROJECT_COUNT
    /\ ~dry_run
    /\ ensurer' = [ensurer EXCEPT !.pc = "poll", !.delay = initial_delay,
                                  !.elapsed = 0, !.failed_polls = 0]
    /\ UNCHANGED <<entry, action, dry_run, main_pc, emails_to_process, runs,
                   ledger, disk, disk_written, cloud_projects, cloud,
                   account_idx, tasks, db_lock, tos_helper, prompts,
                   tos_count, faults, max_workers, calls, last_rec>>

\* except Exception: the creation failed, the loop goes on (436-437)
CreateProjectFails ==
    /\ ensurer.pc = "next"
    /\ ensurer.i < TARGET_PROJECT_COUNT
    /\ ~dry_run
    /\ ensurer' = [ensurer EXCEPT !.i = @ + 1]
    /\ UNCHANGED <<entry, action, dry_run, main_pc, emails_to_process, runs,
                   ledger, disk, disk_written, cloud_projects, cloud,
                   account_idx, tasks, db_lock, tos_helper, prompts,
                   tos_count, faults, max_workers, calls, last_rec>>

\* get_project answers: return True, the project is appended (383-385, 434-435)
PollReady ==
    /\ ensurer.pc = "poll"
    /\ ensurer.elapsed < timeout_seconds
    /\ ensurer' = [ensurer EXCEPT
            !.pc = "next", !.i = @ + 1,
            !.newly_created_projects = Append(@, NewProjectId(ensurer.i + 1))]
    /\ UNCHANGED <<entry, action, dry_run, main_pc, emails_to_process, runs,
                   ledger, disk, disk_written, cloud_projects, cloud,
                   account_idx, tasks, db_lock, tos_helper, prompts,
                   tos_count, faults, max_workers, calls, last_rec>>

\* a wait that doubles the delay without the ceiling
PollNotReadyUncapped(d) ==
    /\ ensurer.pc = "poll"
    /\ ensurer.elapsed < timeout_seconds
    /\ ensurer' = [ensurer EXCEPT
            !.elapsed = @ + d + ensurer.delay,
            !.delay = @ * 2,
            !.failed_polls = @ + 1]
    /\ UNCHANGED <<entry, action, dry_run, main_pc, emails_to_process, runs,
                   ledger, disk, disk_written, cloud_projects, cloud,
                   account_idx, tasks, db_lock, tos_helper, prompts,
                   tos_count, faults, max_workers, calls, last_rec>>

\* get_project raises after d seconds: sleep(delay), delay = min(delay * 2, 30)
\* (386-395)
PollNotReady(d) ==
    /\ ensurer.pc = "poll"
    /\ ensurer.elapsed < timeout_seconds
    /\ ensurer' = [ensurer EXCEPT
            !.elapsed = @ + d + ensurer.delay,
            !.delay = min(@ * 2, DELAY_CEILING),
            !.failed_polls = @ + 1]
    /\ UNCHANGED <<entry, action, dry_run, main_pc, emails_to_process, runs,
                   ledger, disk, disk_written, cloud_projects, cloud,
                   account_idx, tasks, db_lock, tos_helper, prompts,
                   tos_count, faults, max_workers, calls, last_rec>>

\* the while condition fails: return False, the project is skipped (381,
\* 397-398, 436-437)
PollTimesOut ==
    /\ ensurer.pc = "poll"
    /\ ensurer.elapsed >= timeout_seconds
    /\ ensurer' = [ensurer EXCEPT
            !.pc = "next", !.i = @ + 1,
            !.skipped = Append(@, NewProjectId(ensurer.i + 1))]
    /\ UNCHANGED <<entry, action, dry_run, main_pc, emails_to_process, runs,
                   ledger, disk, disk_written, cloud_projects, cloud,
                   account_idx, tasks, db_lock, tos_helper, prompts,
                   tos_count, faults, max_workers, calls, last_rec>>

\* the range is exhausted, or there were 12 projects (407-409, 440);
\* projects.extend(new_projects) (475)
EnsurerReturns ==
    /\ ensurer.pc = "next"
    /\ ensurer.i >= TARGET_PROJECT_COUNT
    /\ ensurer' = [ensurer EXCEPT
            !.pc = "returned",
            !.projects = @ \o ensurer.newly_created_projects]
    /\ UNCHANGED <<entry, action, dry_run, main_pc, emails_to_process, runs,
                   ledger, disk, disk_written, cloud_projects, cloud,
                   account_idx, tasks, db_lock, tos_helper, prompts,
                   tos_count, faults, max_workers, calls, last_rec>>

ReadyNext ==
    \/ CreateDryRun
    \/ CreateProject
    \/ CreateProjectFails
    \/ PollReady
    \/ \E d \in PollSeconds : PollNotReady(d)
    \/ PollTimesOut
    \/ EnsurerReturns

ReadySpec == ReadyInit /\ [][ReadyNext]_vars

(***************************************************************************)
(* One process_account call of the delete action (actions.py 250-254 over  *)
(* gcp_api.delete_api_keys) on a project that may hold two keys with the   *)
(* display name delete looks for.                                          *)
(***************************************************************************)
DeleteKeySets ==
    InitialKeySets(ExistingProjects[1]) \cup
        { {CloudKey("k1", GEMINI_API_KEY_DISPLAY_NAME),
           CloudKey("k2", GEMINI_API_KEY_DISPLAY_NAME)},
          {CloudKey("k1", GENERATIVE_LANGUAGE_API_KEY_DISPLAY_NAME),
           CloudKey("k2", GEMINI_API_KEY_DISPLAY_NAME)} }

DeleteInit ==
    /\ entry = "script"
    /\ action = "delete"
    /\ dry_run \in BOOLEAN
    /\ main_pc = "loop"
    /\ emails_to_process = <<"a">>
    /\ runs = 0
    /\ disk \in InitialLedgers
    /\ ledger = disk
    /\ disk_written = FALSE
    /\ cloud_projects = ExistingProjects
    /\ \E keys \in DeleteKeySets :
            cloud = [p \in ProjectIds |->
                        IF p = ExistingProjects[1] THEN keys ELSE {}]
    /\ account_idx = 0
    /\ tasks = <<>>
    /\ db_lock = 0
    /\ tos_helper = NewTosHelper
    /\ prompts = 0
    /\ tos_count = 0
    /\ faults = 0
    /\ max_workers \in PoolWidths
    /\ calls = {}
    /\ last_rec = [p \in ProjectIds |-> NoRec]
    /\ ensurer = NoEnsurer

DeleteNext ==
    \/ \E email \in Emails : ProcessAccount(email)
    \/ \E i \in 1..Len(tasks) : DelList(i)
    \/ \E i \in 1..Len(tasks) : DelListFails(i)
    \/ \E i \in 1..Len(tasks) : \E key \in tasks[i].to_delete : DelKey(i, key)
    \/ \E i \in 1..Len(tasks) :
            \E key \in tasks[i].to_delete : DelKeyFails(i, key)
    \/ \E i \in 1..Len(tasks) : DelAcquire(i)
    \/ \E i \in 1..Len(tasks) : DelWrite(i)

DeleteSpec == DeleteInit /\ [][DeleteNext]_vars

(***************************************************************************)
(* One call of process_account, create or delete, with or without          *)
(* --dry-run, in which every cloud call returns, the human answers every   *)
(* prompt that is shown (input() does not raise) and enable_api answers    *)
(* terms-not-accepted at most MaxTos times.  The worker threads and the    *)
(* thread of process_account are scheduled fairly.                         *)
(***************************************************************************)
CallInit ==
    /\ Init
    /\ entry = "script"
    /\ Len(emails_to_process) = 1

\* the steps of worker i, the answer of the human to its prompt included
CallStep(i) ==
    \/ RecList(i) \/ RecListFails(i)
    \/ RecAppendAcquire(i) \/ RecAppend(i)
    \/ \E uid \in tasks[i].todo_add : RecFetch(i, uid)
    \/ \E uid \in tasks[i].todo_add : RecFetchFails(i, uid)
    \/ RecAddAcquire(i) \/ RecAddWrite(i)
    \/ \E uid \in tasks[i].todo_deact : RecDeactAcquire(i, uid)
    \/ RecDeactWrite(i)
    \/ StopOnExistingKey(i) \/ ProceedToEnable(i)
    \/ EnableApi(i) \/ EnableApiFails(i) \/ EnableApiTos(i)
    \/ TosPrompt(i) \/ TosSkipPrompt(i) \/ HumanConfirms(i)
    \/ TosWaitReturns(i)
    \/ CreateApiKey(i) \/ CreateApiKeyFails(i)
    \/ AddAcquire(i) \/ AddWrite(i)
    \/ NewProjectDryRun(i) \/ NewProjectCreate(i) \/ NewProjectCreateFails(i)
    \/ DelList(i) \/ DelListFails(i)
    \/ \E key \in tasks[i].to_delete : DelKey(i, key)
    \/ \E key \in tasks[i].to_delete : DelKeyFails(i, key)
    \/ DelAcquire(i) \/ DelWrite(i)

CallNext ==
    \/ \E email \in Emails : ProcessAccount(email)
    \/ \E email \in Emails : ProcessAccountListFails(email)
    \/ JoinPool
    \/ \E i \in 1..Len(tasks) : RecList(i)
    \/ \E i \in 1..Len(tasks) : RecListFails(i)
    \/ \E i \in 1..Len(tasks) : RecAppendAcquire(i)
    \/ \E i \in 1..Len(tasks) : RecAppend(i)
    \/ \E i \in 1..Len(tasks) : \E uid \in tasks[i].todo_add : RecFetch(i, uid)
    \/ \E i \in 1..Len(tasks) :
            \E uid \in tasks[i].todo_add : RecFetchFails(i, uid)
    \/ \E i \in 1..Len(tasks) : RecAddAcquire(i)
    \/ \E i \in 1..Len(tasks) : RecAddWrite(i)
    \/ \E i \in 1..Len(tasks) :
            \E uid \in tasks[i].todo_deact : RecDeactAcquire(i, uid)
    \/ \E i \in 1..Len(tasks) : RecDeactWrite(i)
    \/ \E i \in 1..Len(tasks) : StopOnExistingKey(i)
    \/ \E i \in 1..Len(tasks) : ProceedToEnable(i)
    \/ \E i \in 1..Len(tasks) : EnableApi(i)
    \/ \E i \in 1..Len(tasks) : EnableApiFails(i)
    \/ \E i \in 1..Len(tasks) : EnableApiTos(i)
    \/ \E i \in 1..Len(tasks) : TosPrompt(i)
    \/ \E i \in 1..Len(tasks) : TosSkipPrompt(i)
    \/ \E i \in 1..Len(tasks) : HumanConfirms(i)
    \/ \E i \in 1..Len(tasks) : TosWaitReturns(i)
    \/ \E i \in 1..Len(tasks) : CreateApiKey(i)
    \/ \E i \in 1..Len(tasks) : CreateApiKeyFails(i)
    \/ \E i \in 1..Len(tasks) : AddAcquire(i)
    \/ \E i \in 1..Len(tasks) : AddWrite(i)
    \/ \E i \in 1..Len(tasks) : NewProjectDryRun(i)
    \/ \E i \in 1..Len(tasks) : NewProjectCreate(i)
    \/ \E i \in 1..Len(tasks) : NewProjectCreateFails(i)
    \/ \E i \in 1..Len(tasks) : DelList(i)
    \/ \E i \in 1..Len(tasks) : DelListFails(i)
    \/ \E i \in 1..Len(tasks) : \E key \in tasks[i].to_delete : DelKey(i, key)
    \/ \E i \in 1..Len(tasks) :
            \E key \in tasks[i].to_delete : DelKeyFails(i, key)
    \/ \E i \in 1..Len(tasks) : DelAcquire(i)
    \/ \E i \in 1..Len(tasks) : DelWrite(i)

CallSpec ==
    /\ CallInit
    /\ [][CallNext]_vars
    /\ WF_vars(JoinPool)
    /\ \A i \in 1..TARGET_PROJECT_COUNT :
            WF_vars(i <= Len(tasks) /\ CallStep(i))

(***************************************************************************)
(* Properties.                                                             *)
(***************************************************************************)
TaskIds == 1..Len(tasks)
\* the key list the ledger holds now for the project of task t
Entry(t) == EntryKeys(Projects, t.project)
RecordWith(api_keys, uid) == CHOOSE r \in Range(api_keys) : r.key_id = uid
NoDuplicateIds(api_keys) ==
    \A x, y \in 1..Len(api_keys) :
        api_keys[x].key_id = api_keys[y].key_id => x = y
\* reconcile_project_keys of task i has just returned
Reconciled(i) == main_pc = "pool" /\ tasks[i].pc = "rec_done"
ReservedNames ==
    {"Gemini API Key", "Generative Language API Key"}
CloudHoldsManagedKey(project_id) ==
    \E k \in cloud[project_id] : k.display_name \in ReservedNames

\* C1: during one process_account call the acceptance prompt is shown at most
\* once, however many workers are answered terms-not-accepted and however
\* they interleave.
PromptAtMostOnce == prompts <= 1

\* two workers were answered terms-not-accepted and the human has confirmed:
\* one prompt has been shown and both wait for the event
PromptAtMostOnceWitness ==
    /\ prompts = 1
    /\ \E i, j \in TaskIds :
        /\ i < j
        /\ tasks[i].pc = "tos_wait"
        /\ tasks[j].pc = "tos_wait"

\* C2: once the human has confirmed the prompt, every worker that is in the
\* gate (waiting for the gate lock, or for the event) eventually is back at
\* the enable_api call.
InGate(i) ==
    /\ i <= Len(tasks)
    /\ tasks[i].pc \in {"tos_lock", "tos_input", "tos_wait"}
WaitersProceed ==
    \A i \in 1..TARGET_PROJECT_COUNT :
        (InGate(i) /\ tos_helper.prompted_event)
            ~> (i <= Len(tasks) /\ tasks[i].pc = "enable")

\* the prompt is confirmed while another worker is blocked on the gate lock
WaitersProceedWitness ==
    /\ tos_helper.prompted_event
    /\ \E i, j \in TaskIds :
        /\ tasks[i].pc = "tos_wait"
        /\ tasks[j].pc = "tos_lock"

\* C3: in every reachable state each key_id appears at most once in the key
\* list of every project entry of the ledger.
UniqueKeyIds ==
    \A a \in 1..Len(ledger) :
        \A p \in 1..Len(ledger[a].projects) :
            NoDuplicateIds(ledger[a].projects[p].api_keys)

\* a second dry-run call without any failure has inserted the mock key into
\* the entry that holds it since the first call
UniqueKeyIdsWitness ==
    /\ dry_run /\ action = "create" /\ runs >= 2 /\ faults = 0
    /\ main_pc = "pool"
    /\ tasks[1].pc = "done" /\ ~tasks[1].gemini
    /\ MOCK_KEY_ID \in KeyIds(Entry(tasks[1]))

\* the reconcile of task t follows an earlier reconcile of the same project
\* that listed the same cloud keys
SecondReconcile(i) ==
    /\ Reconciled(i)
    /\ tasks[i].listed
    /\ tasks[i].prev_rec.known
    /\ tasks[i].prev_rec.keys = tasks[i].cloud_keys

LedgerOnlyDeactivated ==
    \A i \in TaskIds :
        Reconciled(i) =>
            LET t == tasks[i]
                now == Entry(t)
            IN  \A k \in 1..Len(t.old_keys) :
                    LET uid == t.old_keys[k].key_id
                    IN  /\ uid \in KeyIds(now)
                        /\ (~dry_run /\ t.listed /\ uid \notin Uids(t.cloud_keys))
                            => /\ RecordWith(now, uid).state = "INACTIVE"
                               /\ RecordWith(now, uid).updated = Now

\* a reconcile has deactivated a record that was ACTIVE
LedgerOnlyDeactivatedWitness ==
    \E i \in TaskIds :
        /\ Reconciled(i) /\ ~dry_run /\ tasks[i].listed
        /\ \E k \in 1..Len(tasks[i].old_keys) :
            /\ tasks[i].old_keys[k].key_id \notin Uids(tasks[i].cloud_keys)
            /\ tasks[i].old_keys[k].state = "ACTIVE"
            /\ RecordWith(Entry(tasks[i]),
                          tasks[i].old_keys[k].key_id).state = "INACTIVE"

\* C6: with dry-run, for create and for delete, no cloud-mutating call
\* (create project, enable service, create key, delete key) is issued and
\* the ledger file is never written.
DryRunIsInert == dry_run => (calls = {} /\ ~disk_written)

\* a dry-run process has ended after its workers changed the ledger in memory
DryRunIsInertWitness ==
    /\ dry_run
    /\ main_pc = "exited"
    /\ runs >= 1
    /\ ledger # disk

\* C7 as stated: every step that changes the ledger is taken while the ledger
\* lock is held.
MutationsUnderLock == [][ledger' # ledger => db_lock # 0]_vars

\* the orchestrating thread appends the entry of a new account, before the
\* lock of the call exists and before any worker runs
AccountEntryAppended ==
    /\ main_pc = "loop"
    /\ tasks = <<>>
    /\ db_lock = 0
    /\ Len(ledger') = Len(ledger) + 1
    /\ SubSeq(ledger', 1, Len(ledger)) = ledger
    /\ ledger'[Len(ledger')].projects = <<>>

\* the worker that holds the lock changes the projects of the account entry
\* and leaves the critical section; no other worker moves
HolderMutates ==
    /\ main_pc = "pool"
    /\ db_lock \in TaskIds
    /\ tasks[db_lock].pc \in {"rec_append", "rec_add_cs", "rec_deact_cs",
                              "add_cs", "del_cs"}
    /\ tasks'[db_lock].pc # tasks[db_lock].pc
    /\ \A j \in TaskIds \ {db_lock} : tasks'[j] = tasks[j]
    /\ Len(ledger') = Len(ledger)
    /\ \A a \in 1..Len(ledger) : a # account_idx => ledger'[a] = ledger[a]

\* C7: every mutation of the ledger made by a worker (appending a project
\* entry, inserting, deactivating or removing key records) is made by the
\* worker that holds the ledger lock; the account entry is appended by the
\* orchestrating thread before the lock is created.
WorkerMutationsUnderLock ==
    [][ledger' # ledger => (AccountEntryAppended \/ HolderMutates)]_vars

\* a worker is inside the critical section while another one waits for the
\* lock
WorkerMutationsUnderLockWitness ==
    \E i, j \in TaskIds :
        /\ db_lock = i
        /\ tasks[i].pc \in {"rec_append", "rec_add_cs", "rec_deact_cs",
                            "add_cs", "del_cs"}
        /\ tasks[j].pc \in {"rec_append_lock", "rec_add_lock", "rec_deact",
                            "add_lock", "del_lock"}

\* C8: reconcile returns true exactly when the cloud holds a key of the
\* project with one of the two reserved names, whatever the ledger holds, with
\* and without dry-run and whether or not a key-string fetch succeeded.
ReturnsCloudTruth ==
    \A i \in TaskIds :
        Reconciled(i) =>
            (tasks[i].gemini <=> CloudHoldsManagedKey(tasks[i].project))

\* C9: after a reconcile without dry-run whose listing and key-string
\* fetches all succeeded, the project has an entry that holds exactly the
\* ids of the old entry and of the cloud, each once: a cloud-only id with a
\* new ACTIVE record, a ledger-only id INACTIVE, an id in both with its
\* record unchanged.
ReconcileMerges ==
    \A i \in TaskIds :
        (Reconciled(i) /\ ~dry_run /\ tasks[i].listed
            /\ ~tasks[i].fetch_failed) =>
            LET t == tasks[i]
                old == t.old_keys
                now == Entry(t)
            IN  /\ ProjectIndex(Projects, t.project) # 0
                /\ NoDuplicateIds(now)
                /\ KeyIds(now) = KeyIds(old) \cup Uids(t.cloud_keys)
                /\ \A k \in 1..Len(now) :
                    IF now[k].key_id \notin KeyIds(old)
                    THEN /\ now[k].state = "ACTIVE"
                         /\ now[k].display_name =
                              KeyByUid(t.cloud_keys, now[k].key_id).display_name
                    ELSE IF now[k].key_id \notin Uids(t.cloud_keys)
                    THEN now[k].state = "INACTIVE"
                    ELSE now[k] = RecordWith(old, now[k].key_id)

\* a reconcile has inserted a cloud-only key next to a key held by both sides
ReconcileMergesWitness ==
    \E i \in TaskIds :
        /\ Reconciled(i) /\ ~dry_run /\ tasks[i].listed
        /\ ~tasks[i].fetch_failed
        /\ Uids(tasks[i].cloud_keys) \ KeyIds(tasks[i].old_keys) # {}
        /\ Uids(tasks[i].cloud_keys) \cap KeyIds(tasks[i].old_keys) # {}

\* C10: a worker whose reconcile reported an existing managed key stops: its
\* next step ends the task without a call to the cloud and without a change
\* of the ledger, and no enable or create-key call of this run names its
\* project.
StopsOnExistingKey ==
    [][\A i \in TaskIds :
        /\ (Reconciled(i) /\ tasks[i].gemini /\ tasks'[i] # tasks[i]) =>
                /\ tasks'[i].pc = "done"
                /\ calls' = calls
                /\ cloud' = cloud
                /\ ledger' = ledger
        /\ (tasks[i].gemini /\ tasks[i].pc \in {"rec_done", "done"}) =>
                /\ Call("enable_service", tasks[i].project) \notin calls
                /\ Call("create_key", tasks[i].project) \notin calls]_vars

\* a worker has stopped on an existing key while the run issued calls for
\* another project
StopsOnExistingKeyWitness ==
    \E i \in TaskIds :
        /\ tasks[i].pc = "done"
        /\ tasks[i].gemini
        /\ ~dry_run
        /\ calls # {}

\* the uids of the keys the create flows of earlier calls made
EarlierCreatedUids == {CreatedKey(r).uid : r \in 1..(runs - 1)}
\* the uids of the keys the create flows of this process made
CreatedUids == {CreatedKey(r).uid : r \in 1..runs}

\* C11: once a create flow has created a managed key in a project, a later
\* create flow on the project whose listing succeeds issues no create-key
\* call; while no call fails, a project holds at most one created key.
ProvisionedOnce ==
    /\ \A i \in TaskIds :
        (action = "create" /\ tasks[i].listed
            /\ Uids(cloud[tasks[i].project]) \cap EarlierCreatedUids # {})
            => Call("create_key", tasks[i].project) \notin calls
    /\ faults = 0 =>
        \A p \in ProjectIds :
            Cardinality(Uids(cloud[p]) \cap CreatedUids) <= 1

\* a later create flow has listed the key an earlier one created, and stopped
ProvisionedOnceWitness ==
    \E i \in TaskIds :
        /\ ~dry_run /\ runs >= 2
        /\ tasks[i].pc = "done" /\ tasks[i].listed /\ tasks[i].gemini
        /\ Uids(cloud[tasks[i].project]) \cap EarlierCreatedUids # {}

\* task i is at or past its create-key call
PastEnable(i) == tasks[i].pc \in {"create_key", "add_lock", "add_cs"}

\* C12: a create-key call is issued only after an enable attempt of the same
\* task answered success; when enablement fails there is no create-key call
\* for the project and no record of a new key is inserted.
CreateOnlyWhenEnabled ==
    \A i \in TaskIds :
        LET p == tasks[i].project
        IN  /\ action = "create" /\ (PastEnable(i) \/ Call("create_key", p) \in calls)
                => tasks[i].enabled = "true"
            /\ tasks[i].enabled = "false"
                => /\ tasks[i].pc = "done"
                   /\ Call("create_key", p) \notin calls
                   /\ CreatedKey(runs).uid \notin KeyIds(Entry(tasks[i]))

\* one task was refused enablement and ended, another went on to its key
CreateOnlyWhenEnabledWitness ==
    \E i, j \in TaskIds :
        /\ tasks[i].enabled = "false" /\ tasks[i].pc = "done"
        /\ Call("enable_service", tasks[i].project) \in calls
        /\ tasks[j].enabled = "true"
        /\ Call("create_key", tasks[j].project) \in calls

\* what one step does to task i, read as a step of the enable loop
EnableLoopStep(i) ==
    LET t == tasks[i]
        u == tasks'[i]
    IN  /\ (t.pc = "enable" /\ u # t) =>
            \/ /\ tos_count' > tos_count
               /\ u.pc = "tos_lock" /\ u.enabled = "none"
            \/ /\ tos_count' = tos_count /\ faults' > faults
               /\ u.pc = "done" /\ u.enabled = "false"
            \/ /\ tos_count' = tos_count /\ faults' = faults
               /\ u.pc = "create_key" /\ u.enabled = "true"
        /\ InGate(i) => u.enabled = "none"
        /\ (t.pc = "tos_wait" /\ u # t) => u.pc = "enable"
        /\ u.enabled # t.enabled => t.pc = "enable"

WithoutRecords(l, a, p, gone) ==
    [x \in 1..Len(l) |->
        [l[x] EXCEPT !.projects =
            [q \in 1..Len(l[x].projects) |->
                IF x = a /\ l[x].projects[q].project_id = p
                THEN [l[x].projects[q] EXCEPT !.api_keys =
                        SelectSeq(@, LAMBDA r : r.key_id \notin gone)]
                ELSE l[x].projects[q]]]]

\* C14: a step of a worker of the delete action changes the ledger only by
\* taking out of the processed project's key list the records whose key_id
\* delete_api_keys returned; the account entries, the project entries, the
\* records of other projects and the records of other ids stay as they are.
DeleteFrame ==
    [][(action = "delete" /\ main_pc = "pool") =>
            \/ ledger' = ledger
            \/ \E i \in TaskIds :
                /\ tasks[i].pc = "del_cs"
                /\ tasks[i].deleted # {}
                /\ ledger' = WithoutRecords(ledger, account_idx,
                                            tasks[i].project,
                                            tasks[i].deleted)]_vars

\* a delete call has taken a record out of a ledger that was loaded from disk
DeleteFrameWitness ==
    /\ action = "delete" /\ main_pc = "pool"
    /\ Len(ledger) = Len(disk) /\ ledger # disk
    /\ \E i \in TaskIds : tasks[i].pc = "done" /\ tasks[i].deleted # {}

\* the display name delete_api_keys looks for, as the specification spells it
DeletedName == "Gemini API Key"

\* C15: after a delete without dry-run for a project, no key named "Gemini
\* API Key" that the call deleted is left in the cloud, none at all is left
\* when no cloud call failed, and no ledger record of a deleted key_id is
\* left: the records are removed, not kept as INACTIVE.
DeleteRemoves ==
    \A i \in TaskIds :
        (action = "delete" /\ ~dry_run /\ tasks[i].pc = "done"
            /\ tasks[i].listed) =>
            LET p == tasks[i].project
            IN  /\ Uids(cloud[p]) \cap tasks[i].deleted = {}
                /\ faults = 0 =>
                    \A k \in cloud[p] : k.display_name # DeletedName
                /\ KeyIds(Entry(tasks[i])) \cap tasks[i].deleted = {}

\* a delete call has deleted the key of a project whose record the ledger
\* held on disk
DeleteRemovesWitness ==
    \E i \in TaskIds :
        /\ action = "delete" /\ ~dry_run /\ faults = 0
        /\ tasks[i].pc = "done" /\ tasks[i].listed
        /\ tasks[i].deleted # {}
        /\ \E a \in 1..Len(disk) :
            KeyIds(EntryKeys(disk[a].projects, tasks[i].project))
                \cap tasks[i].deleted # {}

\* the sequence numbers of the project ids, as they are written
SequenceNumbers ==
    <<"01", "02", "03", "04", "05", "06", "07", "08", "09", "10", "11", "12">>
\* the submitted tasks that create a project, in submission order
CreationTasks == SelectSeq(tasks, LAMBDA t : t.kind = "new")
\* the number of projects search_projects listed for the call
ListedCount == Cardinality({i \in TaskIds : tasks[i].kind = "existing"})

\* C16: a create call that lists n projects submits, for n < 12, exactly
\* 12 - n project creations with the sequence numbers n+1..12 written with
\* two digits, and none for n >= 12; a delete call submits none.
ProjectCount ==
    main_pc = "pool" =>
        /\ (action = "create" /\ ListedCount < 12) =>
            /\ Len(CreationTasks) = 12 - ListedCount
            /\ \A k \in 1..Len(CreationTasks) :
                CreationTasks[k].project
                    = "project" \o SequenceNumbers[ListedCount + k]
        /\ (action = "create" /\ ListedCount >= 12) => CreationTasks = <<>>
        /\ action = "delete" => CreationTasks = <<>>

\* a create call that listed ten projects has submitted project11, project12
ProjectCountWitness ==
    /\ main_pc = "pool" /\ action = "create"
    /\ ListedCount = 10
    /\ Len(CreationTasks) = 2
    /\ CreationTasks[1].project = "project11"

\* C17: when the task of one project raises an unexpected failure, the
\* failure stays in its future (the other tasks and the call go on), the
\* call returns only when every submitted task has finished, and every
\* other submitted task runs to completion.
TaskFailureContained ==
    /\ [][(main_pc = "pool" /\ main_pc' # "pool") => AllDone]_vars
    /\ [][(main_pc = "pool" /\ main_pc' = "pool") =>
            \A i \in TaskIds :
                (~tasks[i].raised /\ tasks'[i].raised) =>
                    \A j \in TaskIds \ {i} : tasks'[j] = tasks[j]]_vars
    /\ \A i \in 1..TARGET_PROJECT_COUNT :
        (i <= Len(tasks) /\ tasks[i].raised) ~> AllDone

AccountEmails(l) == {l[a].email : a \in 1..Len(l)}

\* C19: each email is the email of at most one account entry; an account
\* entry is created only for an email that has none, at the end of the
\* list, and no account entry is ever removed.
OneEntryPerEmail ==
    /\ [](\A x, y \in 1..Len(ledger) :
            ledger[x].email = ledger[y].email => x = y)
    /\ [][/\ Len(ledger') \in {Len(ledger), Len(ledger) + 1}
          /\ \A a \in 1..Len(ledger) : ledger'[a].email = ledger[a].email
          /\ Len(ledger') > Len(ledger) =>
                ledger'[Len(ledger')].email \notin AccountEmails(ledger)]_vars

\* the second call for an email found the entry the first call had created
OneEntryPerEmailWitness ==
    /\ runs = 2 /\ main_pc = "pool"
    /\ disk = <<>> /\ Len(ledger) = 1

\* C20: under every interleaving of the tasks, each project_id is the id of
\* at most one project entry of an account: the reconcile and the insertion
\* of a key both look for the entry before they append one.
OneEntryPerProject ==
    \A a \in 1..Len(ledger) :
        \A x, y \in 1..Len(ledger[a].projects) :
            ledger[a].projects[x].project_id = ledger[a].projects[y].project_id
                => x = y

\* the reconcile of a project appended its entry, the insertion of the new
\* key found it, and another task appended the entry of its own project
OneEntryPerProjectWitness ==
    \E i \in TaskIds :
        /\ disk = <<>> /\ tasks[i].kind = "existing"
        /\ tasks[i].pc = "done" /\ tasks[i].listed
        /\ Len(Entry(tasks[i])) = 1
        /\ Len(Projects) >= 2

\* the records of project p of account entry a in ledger l that are INACTIVE
InactiveIds(l, a, p) ==
    {r.key_id : r \in {x \in Range(EntryKeys(l[a].projects, p)) :
                            x.state = "INACTIVE"}}
\* the ids of the records of project p of account entry a in ledger l
RecordIds(l, a, p) == KeyIds(EntryKeys(l[a].projects, p))

\* C21: no step turns an INACTIVE record ACTIVE: a record that is INACTIVE
\* and still exists after the step is INACTIVE after it, also when the cloud
\* holds a key with its key_id.
NeverReactivated ==
    [][\A a \in 1..Len(ledger) : \A p \in ProjectIds :
            \A uid \in InactiveIds(ledger, a, p) :
                (a <= Len(ledger') /\ uid \in RecordIds(ledger', a, p))
                    => uid \in InactiveIds(ledger', a, p)]_vars

\* a reconcile without dry-run has ended on a project whose cloud holds a
\* key that the ledger records as INACTIVE
NeverReactivatedWitness ==
    \E i \in TaskIds :
        /\ action = "create" /\ ~dry_run
        /\ tasks[i].pc = "done" /\ tasks[i].listed
        /\ Uids(cloud[tasks[i].project])
            \cap InactiveIds(ledger, account_idx, tasks[i].project) # {}

\* C22: without dry-run the ledger is persisted at the end of the run, after
\* every account has been processed, and the file is never written before or
\* during the processing of the accounts; with dry-run it is never written.
PersistedAtEnd ==
    /\ [](disk_written =>
            main_pc = "exited" /\ emails_to_process = <<>> /\ ~dry_run)
    /\ []((main_pc = "exited" /\ ~dry_run) => disk_written)
    /\ [][(disk' # disk \/ disk_written' # disk_written) =>
            /\ main_pc = "loop" /\ emails_to_process = <<>> /\ ~dry_run
            /\ disk' = ledger]_vars

\* C23: when the ledger to be saved fails the validation, the process ends
\* with an exit status that is not zero and the ledger file is not written:
\* its content stays what it was.
InvalidLedgerNotWritten ==
    [][(entry = "script" /\ main_pc = "loop" /\ main_pc' = "aborted") =>
            /\ emails_to_process = <<>> /\ ~dry_run
            /\ disk' = disk
            /\ ~disk_written']_vars

\* the script ended on a ledger that failed the validation while the ledger
\* in memory differed from the file
InvalidLedgerNotWrittenWitness ==
    /\ entry = "script" /\ main_pc = "aborted"
    /\ runs >= 1 /\ ledger # disk /\ ~disk_written

\* task i has made a check on the ledger (no entry for its project, ids the
\* ledger alone holds) and the write that depends on it is still to come
CheckedWritePending(i) ==
    \/ tasks[i].pc \in {"rec_append_lock", "rec_append"}
    \/ tasks[i].todo_deact # {}

\* C24: a check on the ledger and the write that depends on it are made
\* under one hold of the ledger lock: between them no other worker writes
\* the ledger.
OneCriticalSection ==
    [][main_pc = "pool" =>
            \A i \in TaskIds :
                (CheckedWritePending(i) /\ ledger' # ledger) => db_lock = i]_vars

\* the cloud keys of the listing that the reconcile of t left without a record
Unfetched(t) == Uids(t.cloud_keys) \ KeyIds(Entry(t))

\* C25: a key-string fetch that fails for one cloud-only key inserts no
\* record for that key and changes nothing else: the other cloud-only keys
\* are still inserted, the keys the ledger alone holds are still marked
\* INACTIVE, and the reconcile returns the flag computed from the listing.
FetchFailureContained ==
    /\ [][(main_pc = "pool" /\ main_pc' = "pool") =>
            \A i \in TaskIds :
                (~tasks[i].fetch_failed /\ tasks'[i].fetch_failed) =>
                    /\ ledger' = ledger
                    /\ \E uid \in tasks[i].todo_add :
                            tasks'[i].todo_add = tasks[i].todo_add \ {uid}
                    /\ tasks'[i].todo_deact = tasks[i].todo_deact
                    /\ tasks'[i].gemini = tasks[i].gemini
                    /\ tasks'[i].pc = AfterAdd(tasks'[i].todo_add,
                                               tasks[i].todo_deact)]_vars
    /\ [](\A i \in TaskIds :
            (Reconciled(i) /\ ~dry_run /\ tasks[i].listed
                /\ tasks[i].fetch_failed) =>
                LET t == tasks[i]
                    old == t.old_keys
                    now == Entry(t)
                IN  /\ Unfetched(t) # {}
                    /\ Cardinality(Unfetched(t)) <= faults
                    /\ Unfetched(t) \cap KeyIds(old) = {}
                    /\ KeyIds(now) =
                          KeyIds(old) \cup (Uids(t.cloud_keys) \ Unfetched(t))
                    /\ \A k \in 1..Len(now) :
                          now[k].key_id \notin Uids(t.cloud_keys) =>
                              now[k].state = "INACTIVE"
                    /\ t.gemini = GeminiKeyExists(t.cloud_keys))

\* a reconcile with one failed fetch has inserted another cloud-only key and
\* marked a key of the ledger alone INACTIVE
FetchFailureContainedWitness ==
    \E i \in TaskIds :
        /\ Reconciled(i) /\ ~dry_run /\ tasks[i].listed
        /\ tasks[i].fetch_failed
        /\ tasks[i].gemini
        /\ (Uids(tasks[i].cloud_keys) \cap KeyIds(Entry(tasks[i])))
                \ KeyIds(tasks[i].old_keys) # {}
        /\ KeyIds(tasks[i].old_keys) \ Uids(tasks[i].cloud_keys) # {}

NewProjectSameFlow ==
    \A i \in TaskIds :
        (main_pc = "pool" /\ action = "create" /\ ~dry_run
            /\ tasks[i].kind = "new" /\ tasks[i].pc = "done"
            /\ tasks[i].project \in Range(cloud_projects)) =>
            ProjectIndex(Projects, tasks[i].project) # 0

\* C28: the delay between readiness polls is the initial delay doubled once
\* per failed poll and never above the ceiling; a project that is not ready
\* when the timeout has passed is skipped, not appended, and the loop goes
\* on to the next project number; the projects returned are appended to
\* the working set.
ReadinessBackoff ==
    /\ [](ensurer.pc = "poll" =>
            /\ ensurer.delay = min(initial_delay * 2^ensurer.failed_polls,
                                   DELAY_CEILING)
            /\ ensurer.delay >= initial_delay
            /\ ensurer.delay <= DELAY_CEILING)
    /\ [][ensurer'.skipped # ensurer.skipped =>
            /\ ensurer.elapsed >= timeout_seconds
            /\ ensurer'.newly_created_projects = ensurer.newly_created_projects
            /\ ensurer'.i = ensurer.i + 1
            /\ ensurer'.pc = "next"]_vars
    /\ [][ensurer'.newly_created_projects # ensurer.newly_created_projects =>
            /\ ensurer.pc = "poll"
            /\ ensurer.elapsed < timeout_seconds]_vars
    /\ [](ensurer.pc = "returned" =>
            /\ ensurer.i >= TARGET_PROJECT_COUNT
            /\ ensurer.projects =
                  cloud_projects \o ensurer.newly_created_projects
            /\ Range(ensurer.newly_created_projects)
                  \cap Range(ensurer.skipped) = {})

\* project11 was skipped on the timeout and project12, ready after the delay
\* had reached the ceiling, is in the working set
ReadinessBackoffWitness ==
    /\ ensurer.pc = "returned"
    /\ ensurer.skipped = <<NewProjectId(11)>>
    /\ ensurer.newly_created_projects = <<NewProjectId(12)>>
    /\ ensurer.failed_polls >= 3
    /\ ensurer.delay = DELAY_CEILING
    /\ ensurer.projects[Len(ensurer.projects)] = NewProjectId(12)

\* C29: with no project to work on (delete: none listed; create: none listed
\* and none that a creation can add) process_account returns before the
\* worker pool: the pool is entered with an empty listing only by a create
\* that can still add projects.
NoProjectsNoPool ==
    (main_pc = "pool" /\ cloud_projects = <<>>) =>
        (action = "create" /\ ~dry_run)

\* the tasks inside a critical section of the ledger lock, of the ToS gate
InLedgerSection ==
    {i \in TaskIds : tasks[i].pc \in {"rec_append", "rec_add_cs",
                                      "rec_deact_cs", "add_cs", "del_cs"}}
InGateSection == {i \in TaskIds : tasks[i].pc = "tos_input"}

\* C30: in the pool of one account every project of the working set has
\* exactly one task, at most max_workers tasks run at a time, and the tasks
\* share one ledger lock and one ToS gate: whoever is inside a critical
\* section is the one holder of that lock.
OnePoolPerAccount ==
    main_pc = "pool" =>
        /\ \A i, j \in TaskIds :
                tasks[i].project = tasks[j].project => i = j
        /\ \A p \in Range(cloud_projects) :
                \E i \in TaskIds : tasks[i].project = p
        /\ Cardinality({i \in TaskIds : Running(i)}) <= max_workers
        /\ InLedgerSection = IF db_lock = 0 THEN {} ELSE {db_lock}
        /\ InGateSection = IF tos_helper.lock = 0 THEN {} ELSE {tos_helper.lock}

\* every worker of the pool is busy while futures are queued: one task is
\* inside the ledger lock and another one inside the ToS gate
OnePoolPerAccountWitness ==
    /\ main_pc = "pool"
    /\ Cardinality({i \in TaskIds : Running(i)}) = max_workers
    /\ \E i \in TaskIds : tasks[i].pc = "queued"
    /\ db_lock # 0
    /\ tos_helper.lock # 0
    /\ db_lock # tos_helper.lock

\* the records of the synthetic key in a key list
MockRecords(api_keys) ==
    {k \in 1..Len(api_keys) : api_keys[k].key_id = MOCK_KEY_ID}

\* C31: in a dry-run create no cloud-mutating call is issued, and a listed
\* project whose reconcile reported no managed key ends with exactly one
\* record of the synthetic key "mock-key-id" in the in-memory ledger, ACTIVE,
\* also when the flow is repeated.
MockKeyRecordedOnce ==
    (dry_run /\ action = "create" /\ main_pc = "pool") =>
        /\ calls = {}
        /\ \A i \in TaskIds :
            (tasks[i].kind = "existing" /\ tasks[i].pc = "done"
                /\ ~tasks[i].gemini) =>
                /\ Cardinality(MockRecords(Entry(tasks[i]))) = 1
                /\ \A k \in MockRecords(Entry(tasks[i])) :
                        Entry(tasks[i])[k].state = "ACTIVE"

\* the flow has run a second time on the project in the same process
MockKeyRecordedOnceWitness ==
    /\ dry_run /\ action = "create" /\ main_pc = "pool"
    /\ runs = 2 /\ faults = 0
    /\ \E i \in TaskIds :
        /\ tasks[i].kind = "existing" /\ tasks[i].pc = "done"
        /\ ~tasks[i].gemini /\ tasks[i].listed
        /\ Cardinality(MockRecords(Entry(tasks[i]))) = 1

\* task t is inside reconcile_project_keys
InReconcile(t) ==
    /\ action = "create"
    /\ t.kind = "existing"
    /\ t.pc \in {"queued", "rec_append_lock", "rec_append", "rec_add",
                 "rec_add_lock", "rec_add_cs", "rec_deact", "rec_deact_cs"}

\* C32: in dry-run a reconcile fetches no key string, inserts no record and
\* deactivates none: a step of it leaves the ledger as it is or appends a
\* project entry with an empty key list for a project the ledger lacks.
DryRunReconcileFrame ==
    [][(dry_run /\ main_pc = "pool" /\ main_pc' = "pool") =>
        \A i \in TaskIds :
            (InReconcile(tasks[i]) /\ tasks'[i] # tasks[i]) =>
                /\ tasks'[i].pc \in {"rec_append_lock", "rec_append",
                                     "rec_done"}
                /\ tasks'[i].todo_add = {} /\ tasks'[i].todo_deact = {}
                /\ \/ ledger' = ledger
                   \/ /\ ProjectIndex(Projects, tasks[i].project) = 0
                      /\ ledger' = [ledger EXCEPT ![account_idx].projects =
                            Append(@, NewProjectEntry(tasks[i].project))]]_vars

\* a dry-run reconcile has returned for a project whose cloud keys the
\* ledger lacks: the entry it appended is empty
DryRunReconcileFrameWitness ==
    \E i \in TaskIds :
        /\ dry_run /\ Reconciled(i) /\ tasks[i].listed
        /\ Uids(tasks[i].cloud_keys) # {}
        /\ ProjectIndex(Projects, tasks[i].project) # 0
        /\ Entry(tasks[i]) = <<>>

\* the key ids the ledger file held for project p
DiskIds(p) == IF disk = <<>> THEN {} ELSE RecordIds(disk, 1, p)
\* the key ids whose records the process has removed for the project of t
RemovedIds(t) == DiskIds(t.project) \ KeyIds(Entry(t))

\* C33 as stated: every id delete_api_keys returns is the id of a key that
\* is gone from the cloud, and a ledger record is removed only for such a key.
ReturnedAreRemoved ==
    (action = "delete" /\ main_pc = "pool") =>
        \A i \in TaskIds :
            /\ tasks[i].deleted \cap Uids(cloud[tasks[i].project]) = {}
            /\ RemovedIds(tasks[i]) \cap Uids(cloud[tasks[i].project]) = {}

\* C33: without dry-run the ids returned are ids of keys gone from the
\* cloud, a key whose deletion failed is not returned while the other
\* matching keys are still attempted, and records are removed only for keys
\* gone from the cloud; in dry-run no deletion is issued, every matching id
\* is returned and its record is removed from the in-memory ledger.
ReturnedAreRemovedUnlessDryRun ==
    /\ []((action = "delete" /\ main_pc = "pool") =>
            \A i \in TaskIds :
                LET t == tasks[i]
                    held == cloud[t.project]
                IN  /\ ~dry_run =>
                        /\ t.deleted \cap Uids(held) = {}
                        /\ RemovedIds(t) \cap Uids(held) = {}
                    /\ dry_run =>
                        /\ calls = {}
                        /\ (t.pc = "done" /\ t.listed) =>
                            /\ t.deleted = Uids(KeysToDelete(held))
                            /\ RemovedIds(t) = t.deleted \cap DiskIds(t.project))
    /\ [][(action = "delete" /\ main_pc = "pool" /\ main_pc' = "pool") =>
            \A i \in TaskIds :
                (tasks[i].pc = "del_keys" /\ tasks'[i] # tasks[i]) =>
                    /\ Cardinality(tasks[i].to_delete) > 1 =>
                        /\ tasks'[i].pc = "del_keys"
                        /\ \E key \in tasks[i].to_delete :
                            tasks'[i].to_delete = tasks[i].to_delete \ {key}
                    /\ (~dry_run /\ cloud' = cloud) =>
                        tasks'[i].deleted = tasks[i].deleted]_vars

\* of two matching keys one could not be deleted: the other one was, and
\* the record of the key that is left is still in the ledger
ReturnedAreRemovedUnlessDryRunWitness ==
    \E i \in TaskIds :
        /\ action = "delete" /\ ~dry_run /\ main_pc = "pool"
        /\ tasks[i].pc = "done" /\ tasks[i].listed
        /\ tasks[i].deleted # {}
        /\ \E k \in KeysToDelete(cloud[tasks[i].project]) :
                k.uid \in KeyIds(Entry(tasks[i]))

\* C34: once the human has confirmed, the gate stays as it is for the rest
\* of the call: the event set, prompt_in_progress true, the gate lock free,
\* no further prompt.  A worker answered terms-not-accepted again goes
\* through the gate without blocking and is back at enable_api with its
\* state unchanged, and nothing but the answer of enable_api ends this loop.
ConfirmedGateStaysOpen ==
    /\ []((main_pc = "pool" /\ tos_helper.prompted_event) =>
            /\ tos_helper.prompt_in_progress
            /\ tos_helper.lock = 0
            /\ \A i \in TaskIds :
                /\ tasks[i].pc # "tos_input"
                /\ tasks[i].pc = "tos_lock" => ENABLED TosSkipPrompt(i)
                /\ tasks[i].pc = "tos_wait" => ENABLED TosWaitReturns(i)
                /\ (tasks[i].pc = "enable" /\ ~dry_run /\ tos_count < MaxTos)
                        => ENABLED EnableApiTos(i))
    /\ [][(main_pc = "pool" /\ main_pc' = "pool"
                /\ tos_helper.prompted_event) =>
            /\ tos_helper' = tos_helper
            /\ prompts' = prompts
            /\ \A i \in TaskIds :
                /\ (tasks[i].pc = "enable" /\ tasks'[i].pc = "tos_lock") =>
                        tasks'[i] = [tasks[i] EXCEPT !.pc = "tos_lock"]
                /\ (tasks[i].pc = "tos_lock" /\ tasks'[i] # tasks[i]) =>
                        tasks'[i] = [tasks[i] EXCEPT !.pc = "tos_wait"]
                /\ (tasks[i].pc = "tos_wait" /\ tasks'[i] # tasks[i]) =>
                        tasks'[i] = [tasks[i] EXCEPT !.pc = "enable"]]_vars

\* the only worker that has started was answered terms-not-accepted, showed
\* the prompt, was confirmed, re-attempted, was answered terms-not-accepted
\* again and has passed the gate without a second prompt
ConfirmedGateStaysOpenWitness ==
    /\ main_pc = "pool"
    /\ tos_helper.prompted_event
    /\ prompts = 1
    /\ tos_count = 2
    /\ tasks[1].pc = "tos_wait"
    /\ \A j \in TaskIds : j > 1 => tasks[j].pc = "queued"

\* C35: whenever no worker holds the ToS gate lock, prompt_in_progress
\* implies that the confirmation event is set, so that a worker that skips
\* the prompt finds the event set.
GateClosedOnlyWhileHeld ==
    (main_pc = "pool" /\ tos_helper.lock = 0
        /\ tos_helper.prompt_in_progress) => tos_helper.prompted_event

\* the write that ends the critical section task i is in
LedgerWrite(i) ==
    \/ RecAppend(i) \/ RecAddWrite(i) \/ RecDeactWrite(i)
    \/ AddWrite(i) \/ DelWrite(i)

\* C36: no worker holds the ToS gate lock and the ledger lock together; the
\* holder of the ledger lock is at a ledger write, never at a cloud call, at
\* the prompt or at the wait for the event, and its next step is that write,
\* which makes no cloud call and frees the lock: the two locks cannot
\* deadlock the workers.
LocksNeverNested ==
    /\ [](main_pc = "pool" =>
            \A i \in TaskIds :
                /\ ~(db_lock = i /\ tos_helper.lock = i)
                /\ tos_helper.lock = i => tasks[i].pc = "tos_input"
                /\ db_lock = i =>
                    /\ tasks[i].pc \in {"rec_append", "rec_add_cs",
                                        "rec_deact_cs", "add_cs", "del_cs"}
                    /\ ENABLED LedgerWrite(i))
    /\ [][(main_pc = "pool" /\ main_pc' = "pool") =>
            \A i \in TaskIds :
                (db_lock = i /\ tasks'[i] # tasks[i]) =>
                    /\ db_lock' = 0
                    /\ cloud' = cloud /\ calls' = calls
                    /\ cloud_projects' = cloud_projects
                    /\ tos_helper' = tos_helper]_vars

\* a worker waits for the human with the gate lock held while another one
\* inserts its new key with the ledger lock held
LocksNeverNestedWitness ==
    \E i, j \in TaskIds :
        /\ i # j
        /\ tos_helper.lock = i /\ tasks[i].pc = "tos_input"
        /\ db_lock = j /\ tasks[j].pc = "add_cs"

\* the projects list the first call of the process starts with
InitialProjects == IF disk = <<>> THEN <<>> ELSE disk[1].projects

RECURSIVE InsertAll(_, _, _)
InsertAll(projects, project_id, keys) ==
    IF keys = {} THEN projects
    ELSE LET k == CHOOSE x \in keys : TRUE
         IN  InsertAll(AddKeyToProjects(projects, project_id, k),
                       project_id, keys \ {k})

RECURSIVE DeactivateAll(_, _, _)
DeactivateAll(projects, project_id, uids) ==
    IF uids = {} THEN projects
    ELSE LET uid == CHOOSE x \in uids : TRUE
         IN  DeactivateAll(DeactivateInProjects(projects, project_id, uid, 0),
                           project_id, uids \ {uid})

\* the projects list after the task t has run alone on the list projects,
\* with the answers its capability calls were given: the listing (t.listed),
\* the failed fetches (t.unfetched), the answer of the enable loop
\* (t.enabled), the key created (in the cloud), the ids deleted (t.deleted)
SequentialTask(projects, t) ==
    LET p == t.project
        held == {k \in cloud[p] : k.uid \notin CreatedUids}
        reconciled ==
            IF t.kind = "existing" /\ t.listed
            THEN LET ps == EnsureProject(projects, p)
                     api_keys == EntryKeys(ps, p)
                     cloud_only == {k \in held : /\ k.uid \notin KeyIds(api_keys)
                                                 /\ k.uid \notin t.unfetched}
                     local_only == KeyIds(api_keys) \ Uids(held)
                 IN  IF dry_run THEN ps
                     ELSE DeactivateAll(InsertAll(ps, p, cloud_only),
                                        p, local_only)
            ELSE projects
        key == IF dry_run THEN MockKey ELSE CreatedKey(runs)
    IN  IF action = "delete"
        THEN IF t.deleted = {} THEN projects
             ELSE RemoveKeysFromProjects(projects, p, t.deleted)
        ELSE IF t.enabled = "true" /\ (dry_run \/ key \in cloud[p])
             THEN AddKeyToProjects(reconciled, p, key)
             ELSE reconciled

\* the tasks 1..n run one after another
RECURSIVE SequentialRun(_, _)
SequentialRun(projects, n) ==
    IF n = 0 THEN projects
    ELSE SequentialTask(SequentialRun(projects, n - 1), tasks[n])

\* the project entries of a list and, per project, its records with their
\* states
Content(projects) ==
    {[project_id |-> projects[k].project_id,
      records |-> {<<r.key_id, r.state>> : r \in Range(projects[k].api_keys)}]
        : k \in 1..Len(projects)}

\* C37: when every task of the call has finished, the content of the ledger
\* (the project entries and, per project, the key records with their states)
\* is the content that results from running the tasks one after another
\* with the same answers of the capability calls, whatever the interleaving
\* of the workers was.
InterleavingIndependent ==
    (main_pc = "pool" /\ AllDone /\ runs = 1) =>
        Content(Projects) = Content(SequentialRun(InitialProjects, Len(tasks)))

\* two workers have run side by side and the new project's entry was
\* appended before the entry of the listed project
InterleavingIndependentWitness ==
    /\ main_pc = "pool" /\ AllDone /\ runs = 1
    /\ action = "create" /\ ~dry_run /\ max_workers = 2
    /\ Len(Projects) = 2
    /\ Projects[1].project_id = NewProjectId(2)
    /\ Projects[1].api_keys # <<>>
    /\ Projects[2].api_keys # <<>>

\* the keys of project p with the display name "Generative Language API Key"
GenerativeLanguageKeys(p) ==
    {k \in cloud[p] : k.display_name = GENERATIVE_LANGUAGE_API_KEY_DISPLAY_NAME}

\* C38: delete leaves the keys named "Generative Language API Key" alone:
\* such a key, which the reconciliation of create counts as an existing
\* managed key, is in the cloud after every step of a delete run, and a
\* ledger record with its id is still in the ledger after the step.
DeleteSparesGenerativeLanguage ==
    [][action = "delete" =>
        \A p \in ProjectIds : \A k \in GenerativeLanguageKeys(p) :
            /\ GeminiKeyExists({k})
            /\ k \in cloud'[p]
            /\ \A a \in 1..Len(ledger) :
                 k.uid \in RecordIds(ledger, a, p) =>
                    /\ a <= Len(ledger')
                    /\ k.uid \in RecordIds(ledger', a, p)]_vars

\* a delete task has removed the key named "Gemini API Key" of a project
\* and has finished, and the project's "Generative Language API Key" and the
\* record with its id are still there
DeleteSparesGenerativeLanguageWitness ==
    /\ action = "delete" /\ ~dry_run
    /\ main_pc = "pool" /\ AllDone
    /\ \E i \in TaskIds :
         /\ tasks[i].deleted # {}
         /\ \E k \in GenerativeLanguageKeys(tasks[i].project) :
              /\ Uids(cloud[tasks[i].project]) = {k.uid}
              /\ Len(ledger) = 1
              /\ k.uid \in RecordIds(ledger, 1, tasks[i].project)

\* C39: a call of process_account that has submitted its tasks reaches the
\* point where every task is done with both locks free, and then returns
\* with both locks free, when the workers are scheduled fairly, every cloud
\* call returns, the human answers the prompt and enable_api stops
\* answering terms-not-accepted.
ProcessAccountTerminates ==
    /\ (main_pc = "pool") ~>
            (main_pc = "pool" /\ AllDone /\ db_lock = 0 /\ tos_helper.lock = 0)
    /\ (main_pc = "pool") ~>
            (main_pc = "loop" /\ emails_to_process = <<>>
                /\ db_lock = 0 /\ tos_helper.lock = 0)

\* the call has returned after two workers ran side by side, a prompt was
\* shown and answered, and a worker was answered terms-not-accepted twice
ProcessAccountTerminatesWitness ==
    /\ main_pc = "loop" /\ emails_to_process = <<>> /\ runs = 1
    /\ max_workers = 2
    /\ prompts = 1 /\ tos_helper.prompted_event
    /\ tos_count = MaxTos
    /\ db_lock = 0 /\ tos_helper.lock = 0

====
